---- MODULE Spec2Model ----
(***************************************************************************)
(* ym-playlist-bot: a Telegram bot that curates Yandex.Music playlists.    *)
(*                                                                         *)
(* The model covers                                                        *)
(*   - the persistence layer's playlist / access tables                    *)
(*     (src/database/sqlite_db.py),                                        *)
(*   - the client manager's session cache (src/yandex_client_manager.py),  *)
(*   - the mutation engine: PlaylistService (src/services/                 *)
(*     playlist_service.py) on top of YandexService (src/services/         *)
(*     yandex_service.py), one step per network call,                      *)
(*   - the remote playlist with its revision counter.                      *)
(***************************************************************************)
EXTENDS Integers, Sequences, FiniteSets, TLC

(***************************************************************************)
(* Bounds of the model.                                                    *)
(***************************************************************************)
MaxLog == 2            \* rows of the actions table kept by the access model
MaxCalls == 2          \* engine calls started one after another in one behaviour
MaxRaceCalls == 3      \* engine calls started in one behaviour of two callers at once
MaxIndex == 3          \* largest track number a caller asks to delete
MaxSets == 2           \* personal tokens stored by set_user_token in one behaviour
MaxTasks == 3          \* manager calls started when calls overlap

(***************************************************************************)
(* Program constants.                                                      *)
(***************************************************************************)
max_retries == 2       \* YandexService.*: max_retries default
MAX_RETRIES == 3       \* yandex_client_manager.MAX_RETRIES

(***************************************************************************)
(* Value sets.                                                             *)
(***************************************************************************)
Users == {1, 2}                      \* telegram ids
DefaultUser == 0                     \* creator id of the default account
PlaylistIds == {1}                   \* the local playlist and its remote counterpart
TrackIds == {"ta"}                   \* tracks a caller may insert
InitSizes == {0, 2, 5}               \* sizes of the remote playlist when the engine starts
RaceSizes == {2}                     \* the same when two callers run at once
Callers == {"c1", "c2"}              \* concurrently running handler tasks
Tokens == {"tokA", "tokB"}           \* personal credentials
DefaultToken == "tok0"
Titles == {"A", "B"}
NoPlaylist == [none |-> TRUE]
NoRow == [norow |-> TRUE]
NoClient == "noclient"
NoObs == [kind |-> "none"]               \* nothing written to obs yet
NoToken == "notoken"
NoAccount == [id |-> 0, telegram_id |-> DefaultUser, token |-> "notoken"]
Handshakes == {"ok", "timeout", "error"}   \* how client.init() ends, and how _init_client_with_retry ends
AttemptOutcomes == [1..MAX_RETRIES -> Handshakes]   \* what client.init() does on each attempt, if reached

FullRow == [can_add |-> TRUE, can_edit |-> TRUE, can_delete |-> TRUE]
Rows == [can_add : BOOLEAN, can_edit : BOOLEAN, can_delete : BOOLEAN]
Needs == [need_add : BOOLEAN, need_edit : BOOLEAN, need_delete : BOOLEAN]
NeedAdd == [need_add |-> TRUE, need_edit |-> FALSE, need_delete |-> FALSE]
NeedEdit == [need_add |-> FALSE, need_edit |-> TRUE, need_delete |-> FALSE]
AddOnlyRow == [can_add |-> TRUE, can_edit |-> FALSE, can_delete |-> FALSE]
EditRow == [can_add |-> TRUE, can_edit |-> TRUE, can_delete |-> FALSE]
EditOnlyRow == [can_add |-> FALSE, can_edit |-> TRUE, can_delete |-> FALSE]

VARIABLES
    playlists,          \* table playlists: id -> row or NoPlaylist
    next_playlist_id,   \* AUTOINCREMENT of playlists.id
    playlist_access,    \* table playlist_access: <<playlist id, telegram id>> -> row or NoRow
    yandex_accounts,    \* table yandex_accounts: set of rows [id, telegram_id, token]
    next_account_id,    \* AUTOINCREMENT of yandex_accounts.id
    actions,            \* table actions (append-only log)
    default_client,     \* YandexClientManager._default_client (NoClient or its token)
    user_clients,       \* YandexClientManager._user_clients: telegram id -> NoClient or token
    remote,             \* the remote playlist: [tracks, revision, title, cover]
    call,               \* per caller: the running PlaylistService call and its locals
    ncalls,             \* engine calls started so far
    actors,             \* callers that take part in this behaviour
    insertAts,          \* history: the index of every insert request sent, in order
    chk,                \* the last check_playlist_access / is_playlist_creator call and its result
    obs                 \* the last store or client-manager command: its arguments and what it left

dbvars == <<playlists, next_playlist_id, playlist_access, yandex_accounts, next_account_id, actions>>
mgrvars == <<default_client, user_clients>>
engvars == <<remote, call, ncalls, actors, insertAts>>
vars == <<playlists, next_playlist_id, playlist_access, yandex_accounts, next_account_id, actions,
          default_client, user_clients, remote, call, ncalls, actors, insertAts, chk, obs>>

(***************************************************************************)
(* Persistence: src/database/sqlite_db.py                                  *)
(***************************************************************************)

\* SELECT * FROM playlists WHERE id = ?
get_playlist(p) == IF p \in PlaylistIds THEN playlists[p] ELSE NoPlaylist

\* the row of playlist_access for (p, u), NoRow when there is none
access_row(p, u) == playlist_access[<<p, u>>]

\* variant: the need_add bit is not looked at
check_playlist_access_SkipsAdd(p, u, need) ==
    LET row == access_row(p, u) IN
    IF row = NoRow THEN FALSE
    ELSE IF need.need_edit /\ ~row.can_edit THEN FALSE
    ELSE IF need.need_delete /\ ~row.can_delete THEN FALSE
    ELSE TRUE

\* variant: any existing row grants everything
check_playlist_access_AnyRow(p, u, need) == access_row(p, u) # NoRow

\* variant: the can_edit bit is not looked at
check_playlist_access_SkipsEdit(p, u, need) ==
    LET row == access_row(p, u) IN
    IF row = NoRow THEN FALSE
    ELSE IF need.need_add /\ ~row.can_add THEN FALSE
    ELSE IF need.need_delete /\ ~row.can_delete THEN FALSE
    ELSE TRUE

\* check_playlist_access: the row must exist and carry every needed bit
check_playlist_access(p, u, need) ==
    LET row == access_row(p, u) IN
    IF row = NoRow THEN FALSE
    ELSE IF need.need_add /\ ~row.can_add THEN FALSE
    ELSE IF need.need_edit /\ ~row.can_edit THEN FALSE
    ELSE IF need.need_delete /\ ~row.can_delete THEN FALSE
    ELSE TRUE

\* variant: the creator gate answers from the can_edit bit of the access row
is_playlist_creator_ByEditBit(p, u) ==
    /\ get_playlist(p) # NoPlaylist
    /\ access_row(p, u) # NoRow
    /\ access_row(p, u).can_edit

\* variant: the creator gate lets anyone with an access row through
is_playlist_creator_AnyAccessRow(p, u) ==
    /\ get_playlist(p) # NoPlaylist
    /\ access_row(p, u) # NoRow

\* is_playlist_creator: a playlists row with this id and this creator exists
is_playlist_creator(p, u) ==
    /\ get_playlist(p) # NoPlaylist
    /\ get_playlist(p).creator_telegram_id = u

\* variant: every grant carries the edit capability as well
grant_playlist_access_AlsoEdit(p, u, can_add, can_edit, can_delete) ==
    [playlist_access EXCEPT ![<<p, u>>] =
        [can_add |-> can_add, can_edit |-> TRUE, can_delete |-> can_delete]]

\* INSERT OR IGNORE: a row that is already there is kept as it is
grant_playlist_access_InsertOrIgnore(p, u, can_add, can_edit, can_delete) ==
    IF playlist_access[<<p, u>>] # NoRow THEN playlist_access
    ELSE [playlist_access EXCEPT ![<<p, u>>] =
             [can_add |-> can_add, can_edit |-> can_edit, can_delete |-> can_delete]]

\* INSERT OR REPLACE INTO playlist_access: the whole row is replaced.
\* UNIQUE(playlist_id, telegram_id) keeps one row per pair, so the table is a
\* function of the pair.
grant_playlist_access(p, u, can_add, can_edit, can_delete) ==
    [playlist_access EXCEPT ![<<p, u>>] =
        [can_add |-> can_add, can_edit |-> can_edit, can_delete |-> can_delete]]

\* INSERT INTO actions (the model keeps the first MaxLog rows of the table)
log_action(u, action_type, p) ==
    IF Len(actions) < MaxLog
    THEN Append(actions, [telegram_id |-> u, action_type |-> action_type, playlist_id |-> p])
    ELSE actions

\* SELECT token FROM yandex_accounts WHERE telegram_id = ? AND is_default = 0
get_user_yandex_token(u) ==
    IF \E a \in yandex_accounts : a.telegram_id = u
    THEN (CHOOSE a \in yandex_accounts : a.telegram_id = u).token
    ELSE NoToken

\* SELECT * FROM yandex_accounts WHERE is_default = 1 AND telegram_id IS NULL
get_default_yandex_account == CHOOSE a \in yandex_accounts : a.telegram_id = DefaultUser

\* get_yandex_account_for_user: the user's own account, else the default one
get_yandex_account_for_user(u) ==
    IF get_user_yandex_token(u) # NoToken
    THEN CHOOSE a \in yandex_accounts : a.telegram_id = u
    ELSE get_default_yandex_account

\* set_user_yandex_token: DELETE the user's row, INSERT a new one (a new AUTOINCREMENT id)
set_user_yandex_token(u, token) ==
    {a \in yandex_accounts : a.telegram_id # u}
        \cup {[id |-> next_account_id, telegram_id |-> u, token |-> token]}

\* SELECT * FROM yandex_accounts WHERE id = ?
get_yandex_account_by_id(id) ==
    IF \E a \in yandex_accounts : a.id = id
    THEN CHOOSE a \in yandex_accounts : a.id = id
    ELSE NoAccount

(***************************************************************************)
(* Client manager: src/yandex_client_manager.py                            *)
(* A client is identified by the account it authenticates as and the       *)
(* token it was built from.  Every operator returns the client together    *)
(* with the cache it leaves behind; raised = TRUE when it raises.          *)
(***************************************************************************)
DefaultClient == [acct |-> DefaultUser, token |-> DefaultToken]

\* the for loop of _init_client_with_retry_sync from the given attempt on; retried: the
\* outcomes of client.init() that the loop answers with another attempt
RECURSIVE init_client_attempts(_, _, _)
init_client_attempts(outs, attempt, retried) ==
    IF attempt >= MAX_RETRIES
    THEN [result |-> outs[MAX_RETRIES], attempts |-> MAX_RETRIES]      \* raise last_error
    ELSE IF outs[attempt + 1] = "ok"
    THEN [result |-> "ok", attempts |-> attempt + 1]                  \* return client
    ELSE IF outs[attempt + 1] \in retried
    THEN init_client_attempts(outs, attempt + 1, retried)             \* sleep, next attempt
    ELSE [result |-> outs[attempt + 1], attempts |-> attempt + 1]     \* raise

\* every failure of client.init() is answered with another attempt
init_client_with_retry_sync_RetriesAny(outs) == init_client_attempts(outs, 0, {"timeout", "error"})

\* _init_client_with_retry_sync(token): how it ends and how many times client.init() ran.
\* Only TimedOutError, TimeoutError, ConnectionError and OSError ("timeout") are retried.
init_client_with_retry_sync(outs) == init_client_attempts(outs, 0, {"timeout"})

\* a handshake that ran inside a manager call
Handshake(token, result) == <<[token |-> token, result |-> result]>>

\* the client of a failed handshake is kept as the default client
ensure_default_client_KeepsFailed(hsD, ucl) ==
    IF default_client # NoClient \/ hsD = "ok"
    THEN [raised |-> FALSE, client |-> DefaultClient, dflt |-> DefaultToken, ucl |-> ucl,
          hs |-> IF default_client # NoClient THEN <<>> ELSE Handshake(DefaultToken, hsD)]
    ELSE [raised |-> TRUE, client |-> DefaultClient, dflt |-> DefaultToken, ucl |-> ucl,
          hs |-> Handshake(DefaultToken, hsD)]

\* _ensure_default_client + return self._default_client; hsD: the handshake of the default token.
\* A failed handshake raises RuntimeError and leaves _default_client unset.
ensure_default_client(hsD, ucl) ==
    IF default_client # NoClient
    THEN [raised |-> FALSE, client |-> DefaultClient, dflt |-> default_client, ucl |-> ucl,
          hs |-> <<>>]
    ELSE IF hsD = "ok"
    THEN [raised |-> FALSE, client |-> DefaultClient, dflt |-> DefaultToken, ucl |-> ucl,
          hs |-> Handshake(DefaultToken, hsD)]
    ELSE [raised |-> TRUE, client |-> DefaultClient, dflt |-> NoClient, ucl |-> ucl,
          hs |-> Handshake(DefaultToken, hsD)]

\* the handshake is run anew on every call, the cache is neither read nor written
get_client_NeverCaches(u, hsU, hsD) ==
    LET user_token == get_user_yandex_token(u) IN
    IF u = DefaultUser \/ user_token = NoToken \/ hsU # "ok"
    THEN ensure_default_client(hsD, user_clients)
    ELSE [raised |-> FALSE, client |-> [acct |-> u, token |-> user_token],
          dflt |-> default_client, ucl |-> user_clients, hs |-> Handshake(user_token, hsU)]

\* the default client of a fallback is left in the cache under the user's key
get_client_CachesFallback(u, hsU, hsD) ==
    LET user_token == get_user_yandex_token(u) IN
    IF u = DefaultUser THEN ensure_default_client(hsD, user_clients)
    ELSE IF user_token = NoToken THEN ensure_default_client(hsD, user_clients)
    ELSE IF user_clients[u] # NoClient
    THEN [raised |-> FALSE, client |-> [acct |-> u, token |-> user_clients[u]],
          dflt |-> default_client, ucl |-> user_clients, hs |-> <<>>]
    ELSE IF hsU = "ok"
    THEN [raised |-> FALSE, client |-> [acct |-> u, token |-> user_token],
          dflt |-> default_client, ucl |-> [user_clients EXCEPT ![u] = user_token],
          hs |-> Handshake(user_token, hsU)]
    ELSE LET d == ensure_default_client(hsD, [user_clients EXCEPT ![u] = DefaultToken]) IN
         [d EXCEPT !.hs = Handshake(user_token, hsU) \o d.hs]

\* get_client(telegram_id); hsU: the handshake of the user's token
get_client(u, hsU, hsD) ==
    LET user_token == get_user_yandex_token(u) IN
    IF u = DefaultUser THEN ensure_default_client(hsD, user_clients)
    ELSE IF user_token = NoToken THEN ensure_default_client(hsD, user_clients)
    ELSE IF user_clients[u] # NoClient
    THEN [raised |-> FALSE, client |-> [acct |-> u, token |-> user_clients[u]],
          dflt |-> default_client, ucl |-> user_clients, hs |-> <<>>]
    ELSE IF hsU = "ok"
    THEN [raised |-> FALSE, client |-> [acct |-> u, token |-> user_token],
          dflt |-> default_client, ucl |-> [user_clients EXCEPT ![u] = user_token],
          hs |-> Handshake(user_token, hsU)]
    ELSE LET d == ensure_default_client(hsD, user_clients) IN
         [d EXCEPT !.hs = Handshake(user_token, hsU) \o d.hs]

\* the cache is cleared before the token is validated
set_user_token_EvictsFirst(u, token, hs) ==
    IF hs = "ok"
    THEN [result |-> TRUE, accounts |-> set_user_yandex_token(u, token),
          next_id |-> next_account_id + 1, ucl |-> [user_clients EXCEPT ![u] = token]]
    ELSE [result |-> FALSE, accounts |-> yandex_accounts, next_id |-> next_account_id,
          ucl |-> [user_clients EXCEPT ![u] = NoClient]]

\* the token is stored, the cached client is left in place
set_user_token_KeepsCache(u, token, hs) ==
    IF hs = "ok"
    THEN [result |-> TRUE, accounts |-> set_user_yandex_token(u, token),
          next_id |-> next_account_id + 1, ucl |-> user_clients]
    ELSE [result |-> FALSE, accounts |-> yandex_accounts, next_id |-> next_account_id,
          ucl |-> user_clients]

\* set_user_token(telegram_id, token); hs: the handshake of the new token.
\* It never raises: every exception is answered with False.
set_user_token(u, token, hs) ==
    IF hs = "ok"
    THEN [result |-> TRUE, accounts |-> set_user_yandex_token(u, token),
          next_id |-> next_account_id + 1, ucl |-> [user_clients EXCEPT ![u] = token]]
    ELSE [result |-> FALSE, accounts |-> yandex_accounts, next_id |-> next_account_id,
          ucl |-> user_clients]

\* get_client_for_playlist(playlist_id)
get_client_for_playlist(p, hsU, hsD) ==
    LET playlist == get_playlist(p) IN
    IF playlist = NoPlaylist THEN ensure_default_client(hsD, user_clients)
    ELSE IF playlist.yandex_account_id = 0 THEN ensure_default_client(hsD, user_clients)
    ELSE LET account == get_yandex_account_by_id(playlist.yandex_account_id) IN
         IF account = NoAccount THEN ensure_default_client(hsD, user_clients)
         ELSE IF account.telegram_id # DefaultUser THEN get_client(account.telegram_id, hsU, hsD)
         ELSE ensure_default_client(hsD, user_clients)

(***************************************************************************)
(* Operations on the local tables (the chat layer's entry points).         *)
(***************************************************************************)

\* db.create_playlist: the playlists row plus the creator's full access row
create_playlist_row(creator, account_id, title) ==
    [creator_telegram_id |-> creator, yandex_account_id |-> account_id, title |-> title,
     cover_url |-> "", share_token |-> 0, insert_position |-> "end"]

\* YandexClientManager.create_playlist once the remote playlist exists:
\* the playlist row, the creator's access row, the share token, the log entry
CreatePlaylist(u, title) ==
    /\ next_playlist_id \in PlaylistIds
    /\ \E hsU \in Handshakes, hsD \in Handshakes :
         LET r == get_client(u, hsU, hsD)
             p == next_playlist_id
             account == get_yandex_account_for_user(u)
         IN /\ ~r.raised
            /\ default_client' = r.dflt
            /\ user_clients' = r.ucl
            /\ playlists' = [playlists EXCEPT ![p] =
                   [create_playlist_row(u, account.id, title) EXCEPT !.share_token = p]]
            /\ next_playlist_id' = p + 1
            /\ playlist_access' = [playlist_access EXCEPT ![<<p, u>>] = FullRow]
            /\ actions' = IF u # DefaultUser THEN log_action(u, "playlist_created", p) ELSE actions
    /\ UNCHANGED <<yandex_accounts, next_account_id, remote, call, ncalls, actors, insertAts, chk, obs>>

\* a share link is opened: MessageHandlers.add_command / CommandHandlers.start
RedeemShareToken(u, share_token) ==
    /\ \E p \in PlaylistIds :
         /\ playlists[p] # NoPlaylist
         /\ playlists[p].share_token = share_token
         /\ playlist_access' = grant_playlist_access(p, u, TRUE, FALSE, FALSE)
         /\ actions' = log_action(u, "playlist_shared_access", p)
    /\ UNCHANGED <<playlists, next_playlist_id, yandex_accounts, next_account_id,
                   default_client, user_clients, remote, call, ncalls, actors, insertAts, chk, obs>>

\* the store's grant with any capability set (DatabaseInterface.grant_playlist_access)
GrantAccess(p, u, row) ==
    /\ playlists[p] # NoPlaylist
    /\ playlist_access' = grant_playlist_access(p, u, row.can_add, row.can_edit, row.can_delete)
    /\ UNCHANGED <<playlists, next_playlist_id, yandex_accounts, next_account_id, actions,
                   default_client, user_clients, remote, call, ncalls, actors, insertAts, chk, obs>>

\* the same grant, with the table it found and the table it left written down
GrantAccessRecorded(p, u, row) ==
    /\ playlists[p] # NoPlaylist
    /\ playlist_access' = grant_playlist_access(p, u, row.can_add, row.can_edit, row.can_delete)
    /\ obs' = [kind |-> "grant", playlist_id |-> p, telegram_id |-> u, row |-> row,
               before |-> playlist_access, after |-> playlist_access']
    /\ UNCHANGED <<playlists, next_playlist_id, yandex_accounts, next_account_id, actions,
                   default_client, user_clients, remote, call, ncalls, actors, insertAts, chk>>

\* CallbackHandlers._handle_delete_playlist: creator only, local row only.
\* SQLite runs without PRAGMA foreign_keys, so the access rows stay behind.
DeletePlaylist(u, p) ==
    /\ get_playlist(p) # NoPlaylist
    /\ is_playlist_creator(p, u)
    /\ playlists' = [playlists EXCEPT ![p] = NoPlaylist]
    /\ actions' = log_action(u, "playlist_deleted", p)
    /\ UNCHANGED <<next_playlist_id, playlist_access, yandex_accounts, next_account_id,
                   default_client, user_clients, remote, call, ncalls, actors, insertAts, chk, obs>>

\* CallbackHandlers._handle_toggle_insert_position
ToggleInsertPosition(u, p) ==
    /\ get_playlist(p) # NoPlaylist
    /\ is_playlist_creator(p, u)
    /\ playlists' = [playlists EXCEPT ![p].insert_position =
                        IF playlists[p].insert_position = "end" THEN "start" ELSE "end"]
    /\ actions' = log_action(u, "playlist_insert_position_changed", p)
    /\ UNCHANGED <<next_playlist_id, playlist_access, yandex_accounts, next_account_id,
                   default_client, user_clients, remote, call, ncalls, actors, insertAts, chk, obs>>

\* a caller asks the store: check_playlist_access and is_playlist_creator
CheckAccess(p, u, need) ==
    /\ chk' = [playlist_id |-> p, telegram_id |-> u, need |-> need,
               row |-> access_row(p, u),
               result |-> check_playlist_access(p, u, need),
               creator |-> is_playlist_creator(p, u)]
    /\ UNCHANGED <<playlists, next_playlist_id, playlist_access, yandex_accounts, next_account_id,
                   actions, default_client, user_clients, remote, call, ncalls, actors, insertAts, obs>>

(***************************************************************************)
(* Calls of the client manager, one step each, with what the call found    *)
(* and what it left written to obs.                                        *)
(***************************************************************************)

\* a default-client initialisation has failed at some point of the behaviour
DefaultFailed == obs.kind \in {"get", "get_for_playlist", "set"} /\ obs.default_failed

\* this call ran the default token's handshake and it failed
FailsDefault(hs) == \E i \in 1..Len(hs) : hs[i].token = DefaultToken /\ hs[i].result # "ok"

\* the call before this one was a set_user_token of u that put a client of a new token in
\* the place of a cached client of another token
ReplacedJustBefore(u) ==
    /\ obs.kind = "set"
    /\ obs.telegram_id = u
    /\ obs.result
    /\ obs.ucl_before[u] \notin {NoClient, obs.token}

\* the call before this one was a get_client of u whose handshake of the stored token
\* failed and that answered with the default client
FellBackJustBefore(u) ==
    /\ obs.kind = "get"
    /\ obs.telegram_id = u
    /\ u # DefaultUser
    /\ obs.stored # NoToken
    /\ obs.hs # <<>>
    /\ obs.hs[1].token = obs.stored
    /\ obs.hs[1].result # "ok"
    /\ ~obs.raised

\* await client_manager.get_client(telegram_id); DefaultUser stands for telegram_id = None
GetClient(u) ==
    /\ \E hsU \in Handshakes, hsD \in Handshakes :
         LET r == get_client(u, hsU, hsD) IN
         /\ default_client' = r.dflt
         /\ user_clients' = r.ucl
         /\ obs' = [kind |-> "get", telegram_id |-> u, stored |-> get_user_yandex_token(u),
                    after_replace |-> ReplacedJustBefore(u),
                    after_fallback |-> FellBackJustBefore(u),
                    raised |-> r.raised, client |-> r.client, hs |-> r.hs,
                    ucl_before |-> user_clients, ucl_after |-> r.ucl,
                    dflt_before |-> default_client, dflt_after |-> r.dflt,
                    failed_before |-> DefaultFailed,
                    default_failed |-> DefaultFailed \/ FailsDefault(r.hs)]
    /\ UNCHANGED <<playlists, next_playlist_id, playlist_access, yandex_accounts, next_account_id,
                   actions, remote, call, ncalls, actors, insertAts, chk>>

\* await client_manager.get_client_for_playlist(playlist_id)
GetClientForPlaylist(p) ==
    /\ \E hsU \in Handshakes, hsD \in Handshakes :
         LET r == get_client_for_playlist(p, hsU, hsD)
             playlist == get_playlist(p)
         IN
         /\ default_client' = r.dflt
         /\ user_clients' = r.ucl
         /\ obs' = [kind |-> "get_for_playlist", playlist_id |-> p,
                    creator |-> IF playlist = NoPlaylist THEN DefaultUser
                                ELSE playlist.creator_telegram_id,
                    account_id |-> IF playlist = NoPlaylist THEN 0 ELSE playlist.yandex_account_id,
                    raised |-> r.raised, client |-> r.client, hs |-> r.hs,
                    ucl_before |-> user_clients, ucl_after |-> r.ucl,
                    dflt_before |-> default_client, dflt_after |-> r.dflt,
                    failed_before |-> DefaultFailed,
                    default_failed |-> DefaultFailed \/ FailsDefault(r.hs)]
    /\ UNCHANGED <<playlists, next_playlist_id, playlist_access, yandex_accounts, next_account_id,
                   actions, remote, call, ncalls, actors, insertAts, chk>>

\* await client_manager.set_user_token(telegram_id, token)
SetUserToken(u, token) ==
    /\ next_account_id <= 1 + MaxSets
    /\ \E outs \in AttemptOutcomes :
         LET init == init_client_with_retry_sync(outs)
             r == set_user_token(u, token, init.result)
         IN
         /\ yandex_accounts' = r.accounts
         /\ next_account_id' = r.next_id
         /\ user_clients' = r.ucl
         /\ obs' = [kind |-> "set", telegram_id |-> u, token |-> token,
                    outs |-> outs, attempts |-> init.attempts, init_result |-> init.result,
                    result |-> r.result,
                    accounts_before |-> yandex_accounts, accounts_after |-> r.accounts,
                    ucl_before |-> user_clients, ucl_after |-> r.ucl,
                    default_failed |-> DefaultFailed]
    /\ UNCHANGED <<playlists, next_playlist_id, playlist_access, actions, default_client,
                   remote, call, ncalls, actors, insertAts, chk>>

(***************************************************************************)
(* The remote service (RemotePlaylistAPI).  A write carries a revision;    *)
(* the service applies it only when that revision is the current one.      *)
(***************************************************************************)

\* users_playlists_insert_track(kind, track_id, album_id, at=at, ...)
InsertAt(tracks, at, t) ==
    LET k == IF at > Len(tracks) THEN Len(tracks) ELSE at IN
    SubSeq(tracks, 1, k) \o <<t>> \o SubSeq(tracks, k + 1, Len(tracks))

\* change-relative with diff [{"op":"delete","from":from,"to":to}]: 0-based, 'to' exclusive
DeleteRange(tracks, from, to) ==
    IF to <= from \/ from < 0 THEN tracks
    ELSE SubSeq(tracks, 1, from) \o SubSeq(tracks, to + 1, Len(tracks))

(***************************************************************************)
(* The engine's per-caller state: the locals of the running                *)
(* PlaylistService call and of the YandexService loop under it, plus       *)
(* history fields that record what the call did: size0 (remote size when   *)
(* the call began), sessions, fetches, reqs (every write request sent,     *)
(* with the remote's answer), applied, fetched_revision / fetched_count /  *)
(* fetched_attempt (the last snapshot fetched and the pass that fetched    *)
(* it), post_count (the last post-check count), noops (post-checks that    *)
(* found the count unchanged).                                             *)
(***************************************************************************)
IdleCall == [pc |-> "idle"]
\* how many calls a behaviour starts
CallBudget == IF actors = Callers THEN MaxRaceCalls ELSE MaxCalls
NoSession == [acct |-> DefaultUser, token |-> NoToken]
FetchOutcomes == {"ok", "none", "error"}

NewCall(op, u, p) ==
    [pc |-> "session", op |-> op, user |-> u, playlist_id |-> p,
     track |-> "", index |-> 0, from_idx |-> 0, to_idx |-> 0, new_name |-> "",
     insert_position |-> "end", client |-> NoSession,
     attempt |-> 0, revision |-> 0, at |-> 0, tracks_count_before |-> 0,
     ok |-> FALSE, error |-> "", detail |-> "",
     size0 |-> Len(remote.tracks), sessions |-> 0, fetches |-> 0, reqs |-> <<>>,
     applied |-> 0, fetched_revision |-> 0, fetched_count |-> 0, fetched_attempt |-> -1,
     post_count |-> 0, noops |-> 0,
     title0 |-> IF get_playlist(p) = NoPlaylist THEN "" ELSE get_playlist(p).title,
     handshakes |-> 0, after_auth_invalid |-> FALSE, message |-> ""]

\* return (False, message)
Failed(cc, error, detail) == [cc EXCEPT !.pc = "done", !.ok = FALSE, !.error = error, !.detail = detail]
\* return (True, ...)
Succeeded(cc) == [cc EXCEPT !.pc = "done", !.ok = TRUE, !.error = "", !.detail = ""]

\* variant: a revision error is returned as a failure at once
RetryOrFail_NoRetry(cc, error, detail) == Failed(cc, error, detail)

\* variant: a revision error repeats the request with the revision already held
RetryOrFail_KeepsRevision(cc, error, detail) ==
    IF detail = "wrong-revision" /\ cc.attempt < max_retries - 1
    THEN [cc EXCEPT !.pc = "submit", !.attempt = @ + 1]
    ELSE Failed(cc, error, detail)

\* variant: a revision error with no attempt left is reported as done
RetryOrFail_SwallowsLast(cc, error, detail) ==
    IF detail = "wrong-revision"
    THEN IF cc.attempt < max_retries - 1
         THEN [cc EXCEPT !.pc = "fetch", !.attempt = @ + 1]
         ELSE Succeeded(cc)
    ELSE Failed(cc, error, detail)

\* variant: a revision error goes round the loop again however many attempts were made
RetryOrFail_Unbounded(cc, error, detail) ==
    IF detail = "wrong-revision"
    THEN [cc EXCEPT !.pc = "fetch", !.attempt = @ + 1]
    ELSE Failed(cc, error, detail)

\* variant: any error goes round the loop again while an attempt is left
RetryOrFail_RetriesAnyError(cc, error, detail) ==
    IF cc.attempt < max_retries - 1
    THEN [cc EXCEPT !.pc = "fetch", !.attempt = @ + 1]
    ELSE Failed(cc, error, detail)

\* variant: a revision error with no attempt left falls out of the loop and the
\* call returns the fixed message that follows it
RetryOrFail_FallsThrough(cc, error, detail) ==
    IF detail = "wrong-revision"
    THEN IF cc.attempt < max_retries - 1
         THEN [cc EXCEPT !.pc = "fetch", !.attempt = @ + 1]
         ELSE Failed(cc, error, "attempts-exhausted")
    ELSE Failed(cc, error, detail)

\* the except branches of the YandexService loops: a revision error with attempts left
\* goes round the loop again, anything else returns the failure
RetryOrFail(cc, error, detail) ==
    IF detail = "wrong-revision" /\ cc.attempt < max_retries - 1
    THEN [cc EXCEPT !.pc = "fetch", !.attempt = @ + 1]
    ELSE Failed(cc, error, detail)

\* await asyncio.to_thread(self.db.log_action, ...): log_action is a coroutine function,
\* so the thread only creates the coroutine object; it is never awaited and no row is written
to_thread_log_action(u, action_type, p) == actions

(***************************************************************************)
(* PlaylistService.add_track / YandexService.insert_track_to_playlist      *)
(***************************************************************************)

\* add_track up to the permission check
BeginAddTrack(c, u, p, t) ==
    /\ c \in actors
    /\ call[c].pc = "idle"
    /\ ncalls < CallBudget
    /\ ncalls' = ncalls + 1
    /\ LET playlist == get_playlist(p)
           cc == [NewCall("insert", u, p) EXCEPT !.track = t]
       IN call' = [call EXCEPT ![c] =
              IF playlist = NoPlaylist THEN Failed(cc, "not_found", "")
              ELSE IF ~check_playlist_access(p, u, NeedAdd) THEN Failed(cc, "denied", "")
              ELSE [cc EXCEPT !.insert_position = playlist.insert_position]]
    /\ UNCHANGED <<playlists, next_playlist_id, playlist_access, yandex_accounts, next_account_id,
                   actions, default_client, user_clients, remote, actors, insertAts, chk, obs>>

\* the last call made through this client failed with UnauthorizedError and the client
\* has not been asked for since
AuthInvalidOf(client) == obs.kind = "auth_invalid" /\ obs.client = client

\* client = await self.client_manager.get_client_for_playlist(playlist_id), for every operation.
\* after_auth_invalid: the client returned is one whose last call failed with UnauthorizedError;
\* handshakes: the handshakes this resolution ran, written down in that case.
ResolveSession(c) ==
    /\ call[c].pc = "session"
    /\ \E hsU \in Handshakes, hsD \in Handshakes :
         LET cc == call[c]
             r == get_client_for_playlist(cc.playlist_id, hsU, hsD)
         IN /\ default_client' = r.dflt
            /\ user_clients' = r.ucl
            /\ call' = [call EXCEPT ![c] =
                   IF r.raised
                   THEN [cc EXCEPT !.pc = "raised", !.sessions = @ + 1]
                   ELSE [cc EXCEPT !.pc = IF cc.op = "rename" THEN "submit" ELSE "fetch",
                                   !.client = r.client, !.sessions = @ + 1,
                                   !.after_auth_invalid = AuthInvalidOf(r.client),
                                   !.handshakes = IF AuthInvalidOf(r.client) THEN Len(r.hs)
                                                  ELSE 0]]
            /\ obs' = IF ~r.raised /\ AuthInvalidOf(r.client) THEN NoObs ELSE obs
    /\ UNCHANGED <<playlists, next_playlist_id, playlist_access, yandex_accounts, next_account_id,
                   actions, remote, ncalls, actors, insertAts, chk>>

\* variant: the index of the last track instead of the position after it
InsertIndex_LastTrack(insert_position, tracks) ==
    IF insert_position = "start" \/ Len(tracks) = 0 THEN 0 ELSE Len(tracks) - 1

\* at = 0 for 'start', len(tracks) of the fetched playlist otherwise
InsertIndex(insert_position, tracks) ==
    IF insert_position = "start" THEN 0 ELSE Len(tracks)

\* one pass of the loop up to the insert request: fetch, read revision, compute the index
FetchForInsert(c) ==
    /\ call[c].pc = "fetch"
    /\ call[c].op = "insert"
    /\ \E out \in FetchOutcomes :
         LET cc == [call[c] EXCEPT !.fetches = @ + 1] IN
         call' = [call EXCEPT ![c] =
             IF out = "none" THEN Failed(cc, "no_playlist", "")
             ELSE IF out = "error" THEN RetryOrFail(cc, "insert_error", "fetch-failed")
             ELSE [cc EXCEPT !.pc = "submit",
                             !.revision = remote.revision,
                             !.at = InsertIndex(cc.insert_position, remote.tracks),
                             !.fetched_revision = remote.revision,
                             !.fetched_count = Len(remote.tracks),
                             !.fetched_attempt = cc.attempt]]
    /\ UNCHANGED <<playlists, next_playlist_id, playlist_access, yandex_accounts, next_account_id,
                   actions, default_client, user_clients, remote, ncalls, actors, insertAts, chk, obs>>

\* what the remote may answer to an insert carrying revision rev
InsertOutcomes(rev) ==
    IF rev = remote.revision THEN {"ok", "rejected"} ELSE {"wrong-revision", "rejected"}

\* the insert request and what follows it: return, retry, or failure
SubmitInsert(c) ==
    /\ call[c].pc = "submit"
    /\ call[c].op = "insert"
    /\ \E out \in InsertOutcomes(call[c].revision) :
         LET cc == [call[c] EXCEPT !.reqs = Append(@, [at |-> call[c].at, revision |-> call[c].revision,
                                                       attempt |-> call[c].attempt, out |-> out,
                                                       fetched_revision |-> call[c].fetched_revision,
                                                       fetched_count |-> call[c].fetched_count,
                                                       fetched_attempt |-> call[c].fetched_attempt,
                                                       remote_revision |-> remote.revision])]
         IN /\ insertAts' = Append(insertAts, cc.at)
            /\ IF out = "ok"
               THEN /\ remote' = [remote EXCEPT !.tracks = InsertAt(@, cc.at, cc.track),
                                                !.revision = @ + 1]
                    /\ actions' = to_thread_log_action(cc.user, "track_added", cc.playlist_id)
                    /\ call' = [call EXCEPT ![c] = Succeeded([cc EXCEPT !.applied = @ + 1])]
               ELSE /\ call' = [call EXCEPT ![c] = RetryOrFail(cc, "insert_error", out)]
                    /\ UNCHANGED <<remote, actions>>
    /\ UNCHANGED <<playlists, next_playlist_id, playlist_access, yandex_accounts, next_account_id,
                   default_client, user_clients, ncalls, actors, chk, obs>>

(***************************************************************************)
(* CommandHandlers.delete_track_input / PlaylistService.delete_track /     *)
(* YandexService.delete_track_from_playlist                                *)
(***************************************************************************)

\* delete_track_input: the 1-based number typed by the user becomes from_idx = to_idx = index - 1;
\* delete_track up to the permission check
BeginDeleteTrack(c, u, p, index) ==
    /\ c \in actors
    /\ call[c].pc = "idle"
    /\ ncalls < CallBudget
    /\ ncalls' = ncalls + 1
    /\ LET playlist == get_playlist(p)
           cc == [NewCall("delete", u, p) EXCEPT !.index = index,
                                                 !.from_idx = index - 1, !.to_idx = index - 1]
       IN call' = [call EXCEPT ![c] =
              IF playlist = NoPlaylist THEN Failed(cc, "not_found", "")
              ELSE IF ~check_playlist_access(p, u, NeedEdit) THEN Failed(cc, "denied", "")
              ELSE cc]
    /\ UNCHANGED <<playlists, next_playlist_id, playlist_access, yandex_accounts, next_account_id,
                   actions, default_client, user_clients, remote, actors, insertAts, chk, obs>>

\* variant: the indexes are checked for sign and order only, not against the track count
ValidateRange_NoUpperBound(from_idx, to_idx, tracks_count_before) ==
    IF from_idx < 0 \/ to_idx < 0 THEN "bad_index"
    ELSE IF from_idx > to_idx THEN "bad_range"
    ELSE ""

\* the index checks made against the snapshot just fetched: "" when the range is fine
ValidateRange(from_idx, to_idx, tracks_count_before) ==
    IF from_idx < 0 \/ to_idx < 0 THEN "bad_index"
    ELSE IF from_idx >= tracks_count_before \/ to_idx >= tracks_count_before THEN "out_of_range"
    ELSE IF from_idx > to_idx THEN "bad_range"
    ELSE ""

\* variant: 'to' sent as the inclusive index
DeleteDiff_InclusiveTo(from_idx, to_idx) == [from |-> from_idx, to |-> to_idx]

\* the diff sent for from_idx..to_idx (inclusive): 'to' is exclusive in the API
DeleteDiff(from_idx, to_idx) == [from |-> from_idx, to |-> to_idx + 1]

\* one pass of the loop up to the delete request: fetch, count, validate, read revision
FetchForDelete(c) ==
    /\ call[c].pc = "fetch"
    /\ call[c].op = "delete"
    /\ \E out \in FetchOutcomes :
         LET cc == [call[c] EXCEPT !.fetches = @ + 1]
             bad == ValidateRange(cc.from_idx, cc.to_idx, Len(remote.tracks))
         IN call' = [call EXCEPT ![c] =
             IF out = "none" THEN Failed(cc, "no_playlist", "")
             ELSE IF out = "error" THEN RetryOrFail(cc, "delete_error", "fetch-failed")
             ELSE IF bad # ""
             THEN Failed([cc EXCEPT !.tracks_count_before = Len(remote.tracks),
                                    !.fetched_count = Len(remote.tracks),
                                    !.fetched_attempt = cc.attempt], bad, "")
             ELSE [cc EXCEPT !.pc = "submit",
                             !.tracks_count_before = Len(remote.tracks),
                             !.revision = remote.revision,
                             !.fetched_revision = remote.revision,
                             !.fetched_count = Len(remote.tracks),
                             !.fetched_attempt = cc.attempt]]
    /\ UNCHANGED <<playlists, next_playlist_id, playlist_access, yandex_accounts, next_account_id,
                   actions, default_client, user_clients, remote, ncalls, actors, insertAts, chk, obs>>

\* what the remote may answer to a delete diff carrying revision rev:
\* "ok" 200 and applied, "noop" 200 but nothing changed, "wrong-revision" / "rejected" not 200
DeleteOutcomes(rev) ==
    IF rev = remote.revision THEN {"ok", "noop", "rejected"}
    ELSE {"wrong-revision", "noop", "rejected"}

\* requests.post(change-relative) and the handling of its status
SubmitDelete(c) ==
    /\ call[c].pc = "submit"
    /\ call[c].op = "delete"
    /\ \E out \in DeleteOutcomes(call[c].revision) :
         LET diff == DeleteDiff(call[c].from_idx, call[c].to_idx)
             cc == [call[c] EXCEPT !.reqs = Append(@, [from |-> diff.from, to |-> diff.to,
                                                       revision |-> call[c].revision,
                                                       attempt |-> call[c].attempt, out |-> out,
                                                       fetched_revision |-> call[c].fetched_revision,
                                                       fetched_count |-> call[c].fetched_count,
                                                       fetched_attempt |-> call[c].fetched_attempt,
                                                       remote_revision |-> remote.revision])]
         IN IF out = "ok"
            THEN /\ remote' = [remote EXCEPT !.tracks = DeleteRange(@, diff.from, diff.to),
                                             !.revision = @ + 1]
                 /\ call' = [call EXCEPT ![c] = [cc EXCEPT !.pc = "postcheck", !.applied = @ + 1]]
            ELSE /\ call' = [call EXCEPT ![c] =
                        IF out = "noop" THEN [cc EXCEPT !.pc = "postcheck"]
                        ELSE RetryOrFail(cc, "api_error", out)]
                 /\ UNCHANGED remote
    /\ UNCHANGED <<playlists, next_playlist_id, playlist_access, yandex_accounts, next_account_id,
                   actions, default_client, user_clients, ncalls, actors, insertAts, chk, obs>>

\* variant: an accepted request is taken as a delete without comparing the counts
CompareCounts_TrustsStatus(cc, tracks_count_after) == Succeeded(cc)

\* variant: only a decrease by exactly the one track asked for counts as a delete
CompareCounts_ExactOnly(cc, tracks_count_after) ==
    IF tracks_count_after = cc.tracks_count_before - (cc.to_idx - cc.from_idx + 1)
    THEN Succeeded(cc)
    ELSE IF cc.attempt < max_retries - 1
    THEN [cc EXCEPT !.pc = "fetch", !.attempt = @ + 1]
    ELSE Failed(cc, "not_decreased", "")

\* the comparison of the track counts before and after an accepted delete
CompareCounts(cc, tracks_count_after) ==
    LET again == [cc EXCEPT !.pc = "fetch", !.attempt = @ + 1] IN
    IF tracks_count_after = cc.tracks_count_before
    THEN IF cc.attempt < max_retries - 1 THEN again ELSE Failed(cc, "noop", "")
    ELSE IF tracks_count_after >= cc.tracks_count_before
    THEN IF cc.attempt < max_retries - 1 THEN again ELSE Failed(cc, "not_decreased", "")
    ELSE Succeeded(cc)

\* the playlist is fetched again and the track counts are compared
PostCheckDelete(c) ==
    /\ call[c].pc = "postcheck"
    /\ \E out \in FetchOutcomes :
         LET tracks_count_after == Len(remote.tracks)
             cc == [call[c] EXCEPT !.fetches = @ + 1,
                                   !.post_count = IF out = "ok" THEN tracks_count_after ELSE -1,
                                   !.noops = IF out = "ok" /\ tracks_count_after = call[c].tracks_count_before
                                             THEN @ + 1 ELSE @]
         IN /\ call' = [call EXCEPT ![c] =
                  IF out = "none" THEN Succeeded(cc)
                  ELSE IF out = "error" THEN RetryOrFail(cc, "delete_error", "fetch-failed")
                  ELSE CompareCounts(cc, tracks_count_after)]
            /\ actions' = IF call'[c].pc = "done" /\ call'[c].ok
                          THEN to_thread_log_action(cc.user, "track_deleted", cc.playlist_id)
                          ELSE actions
    /\ UNCHANGED <<playlists, next_playlist_id, playlist_access, yandex_accounts, next_account_id,
                   default_client, user_clients, remote, ncalls, actors, insertAts, chk, obs>>

(***************************************************************************)
(* PlaylistService.edit_playlist_name / YandexService.set_playlist_name    *)
(***************************************************************************)

\* edit_playlist_name up to the creator check
BeginEditName(c, u, p, new_name) ==
    /\ c \in actors
    /\ call[c].pc = "idle"
    /\ ncalls < CallBudget
    /\ ncalls' = ncalls + 1
    /\ LET playlist == get_playlist(p)
           cc == [NewCall("rename", u, p) EXCEPT !.new_name = new_name]
       IN call' = [call EXCEPT ![c] =
              IF playlist = NoPlaylist THEN Failed(cc, "not_found", "")
              ELSE IF ~is_playlist_creator(p, u) THEN Failed(cc, "not_creator", "")
              ELSE cc]
    /\ UNCHANGED <<playlists, next_playlist_id, playlist_access, yandex_accounts, next_account_id,
                   actions, default_client, user_clients, remote, actors, insertAts, chk, obs>>

\* answers of POST .../name?value=...: a result, an empty result, or an exception.
\* moderation, unauthorized, api-error and wrong-revision are YandexMusicError by the words of
\* their text; timeout is the library's TimedOutError, a YandexMusicError as well, so the
\* first except clause takes it; connection is a built-in ConnectionError or OSError.
RenameOutcomes == {"ok", "empty", "moderation", "unauthorized", "api-error", "wrong-revision",
                   "timeout", "connection"}

\* str(e) of the exception, or the body of the response: the remote's own words
RemoteText(out) ==
    CASE out = "moderation" -> "playlist title rejected by moderation"
      [] out = "unauthorized" -> "unauthorized"
      [] out = "api-error" -> "internal server error"
      [] out = "wrong-revision" -> "wrong-revision"
      [] out = "timeout" -> "Timed out"
      [] out = "connection" -> "connection reset by peer"
      [] out = "rejected" -> "image rejected by moderation"
      [] out = "exception" -> "upload failed"
      [] OTHER -> ""

\* the messages set_playlist_name returns (rendered in English); none of them quotes the remote
set_playlist_name_message(out) ==
    CASE out = "empty" -> "request done, but the answer is empty"
      [] out = "moderation" -> "the playlist name did not pass moderation, please use another name"
      [] out = "unauthorized" -> "the Yandex Music token is invalid, use /set_token to renew it"
      [] out = "connection" -> "trouble connecting to Yandex Music, try later"
      [] OTHER -> "error while changing the playlist name, try again"

\* the exception classes that set_playlist_name answers with another pass while one is left:
\* a revision error, and the clauses for ConnectionError and OSError.  The clause for
\* TimedOutError stands after the one for YandexMusicError and is never entered.
RenameRetried == {"wrong-revision", "connection"}

\* the title is left as it was
update_playlist_title_Skipped(p, title) == playlists

\* db.update_playlist(playlist_id, title=new_name)
update_playlist_title(p, title) ==
    [playlists EXCEPT ![p] = IF @ = NoPlaylist THEN @ ELSE [@ EXCEPT !.title = title]]

\* one pass of set_playlist_name's loop; on success the title is mirrored locally and logged.
\* UnauthorizedError is answered with a message; the client it came from is written to obs.
SubmitRename(c) ==
    /\ call[c].pc = "submit"
    /\ call[c].op = "rename"
    /\ \E out \in RenameOutcomes :
         LET cc == [call[c] EXCEPT !.reqs = Append(@, [new_name |-> call[c].new_name,
                                                       attempt |-> call[c].attempt, out |-> out,
                                                       text |-> RemoteText(out)])]
         IN IF out = "ok"
            THEN /\ remote' = [remote EXCEPT !.title = cc.new_name]
                 /\ playlists' = update_playlist_title(cc.playlist_id, cc.new_name)
                 /\ actions' = log_action(cc.user, "playlist_name_edited", cc.playlist_id)
                 /\ call' = [call EXCEPT ![c] = Succeeded([cc EXCEPT !.applied = @ + 1])]
                 /\ obs' = obs
            ELSE /\ call' = [call EXCEPT ![c] =
                        IF out \in RenameRetried /\ cc.attempt < max_retries - 1
                        THEN [cc EXCEPT !.attempt = @ + 1]
                        ELSE [Failed(cc, "rename_error", out) EXCEPT
                                  !.message = set_playlist_name_message(out)]]
                 /\ obs' = IF out = "unauthorized"
                           THEN [kind |-> "auth_invalid", client |-> cc.client]
                           ELSE obs
                 /\ UNCHANGED <<remote, playlists, actions>>
    /\ UNCHANGED <<next_playlist_id, playlist_access, yandex_accounts, next_account_id,
                   default_client, user_clients, ncalls, actors, insertAts, chk>>

(***************************************************************************)
(* PlaylistService.set_playlist_cover / YandexService.set_playlist_cover   *)
(***************************************************************************)

\* set_playlist_cover up to the creator check
BeginSetCover(c, u, p) ==
    /\ c \in actors
    /\ call[c].pc = "idle"
    /\ ncalls < CallBudget
    /\ ncalls' = ncalls + 1
    /\ LET playlist == get_playlist(p)
           cc == NewCall("cover", u, p)
       IN call' = [call EXCEPT ![c] =
              IF playlist = NoPlaylist THEN Failed(cc, "not_found", "")
              ELSE IF ~is_playlist_creator(p, u) THEN Failed(cc, "not_creator", "")
              ELSE cc]
    /\ UNCHANGED <<playlists, next_playlist_id, playlist_access, yandex_accounts, next_account_id,
                   actions, default_client, user_clients, remote, actors, insertAts, chk, obs>>

\* the playlist is fetched for its revision before the upload
FetchForCover(c) ==
    /\ call[c].pc = "fetch"
    /\ call[c].op = "cover"
    /\ \E out \in FetchOutcomes :
         LET cc == [call[c] EXCEPT !.fetches = @ + 1] IN
         call' = [call EXCEPT ![c] =
             IF out = "none" THEN Failed(cc, "no_playlist", "")
             ELSE IF out = "error" THEN RetryOrFail(cc, "cover_error", "fetch-failed")
             ELSE [cc EXCEPT !.pc = "submit", !.revision = remote.revision,
                             !.fetched_revision = remote.revision]]
    /\ UNCHANGED <<playlists, next_playlist_id, playlist_access, yandex_accounts, next_account_id,
                   actions, default_client, user_clients, remote, ncalls, actors, insertAts, chk, obs>>

\* answers of POST .../cover/upload: 200, another status, or an exception
CoverOutcomes == {"ok", "rejected", "exception"}

\* the messages set_playlist_cover returns (rendered in English): a fixed beginning, then
\* the first 500 characters of the response body, or str(e)
set_playlist_cover_message(out, text) ==
    IF out = "rejected" THEN "upload error: status 400. " \o text
    ELSE "error setting the cover: " \o text

\* the multipart upload; on success the action is logged
SubmitCover(c) ==
    /\ call[c].pc = "submit"
    /\ call[c].op = "cover"
    /\ \E out \in CoverOutcomes :
         LET cc == [call[c] EXCEPT !.reqs = Append(@, [attempt |-> call[c].attempt, out |-> out,
                                                       text |-> RemoteText(out)])]
         IN IF out = "ok"
            THEN /\ remote' = [remote EXCEPT !.cover = "custom"]
                 /\ actions' = log_action(cc.user, "playlist_cover_set", cc.playlist_id)
                 /\ call' = [call EXCEPT ![c] = Succeeded([cc EXCEPT !.applied = @ + 1])]
            ELSE /\ call' = [call EXCEPT ![c] =
                        [Failed(cc, IF out = "rejected" THEN "upload_error" ELSE "cover_error", out)
                             EXCEPT !.message = set_playlist_cover_message(out, RemoteText(out))]]
                 /\ UNCHANGED <<remote, actions>>
    /\ UNCHANGED <<playlists, next_playlist_id, playlist_access, yandex_accounts, next_account_id,
                   default_client, user_clients, ncalls, actors, insertAts, chk, obs>>

\* the handler has its answer; the task ends
Return(c) ==
    /\ call[c].pc \in {"done", "raised"}
    /\ call' = [call EXCEPT ![c] = IdleCall]
    /\ UNCHANGED <<playlists, next_playlist_id, playlist_access, yandex_accounts, next_account_id,
                   actions, default_client, user_clients, remote, ncalls, actors, insertAts, chk, obs>>

NoCheck == [playlist_id |-> 0]
EmptyRemote == [tracks |-> <<>>, revision |-> 1, title |-> "A", cover |-> "none"]

\* the tables after init_db and init_default_account, nothing created yet
InitAccess ==
    /\ playlists = [p \in PlaylistIds |-> NoPlaylist]
    /\ next_playlist_id = 1
    /\ playlist_access = [k \in PlaylistIds \X Users |-> NoRow]
    /\ yandex_accounts = {[id |-> 1, telegram_id |-> DefaultUser, token |-> DefaultToken]}
    /\ next_account_id = 2
    /\ actions = <<>>
    /\ default_client = NoClient
    /\ user_clients = [u \in Users |-> NoClient]
    /\ remote = EmptyRemote
    /\ call = [c \in Callers |-> IdleCall]
    /\ ncalls = 0
    /\ actors = {}
    /\ insertAts = <<>>
    /\ chk = NoCheck
    /\ obs = NoObs

DefaultAccount == [id |-> 1, telegram_id |-> DefaultUser, token |-> DefaultToken]
UserAccount == [id |-> 2, telegram_id |-> 1, token |-> "tokA"]
OtherAccount == [id |-> 2, telegram_id |-> 2, token |-> "tokA"]

\* the remote playlist with n tracks that were there before
RemoteOfSize(n) == [tracks |-> [i \in 1..n |-> "t0"], revision |-> 1, title |-> "A", cover |-> "none"]

\* The engine starts from tables the store's operations can have left: playlist 1 was created
\* by user 1 under the default account or under user 1's own account (or was deleted again),
\* user 1 or user 2 may have stored a personal token, the creator's access row is the full
\* one or the one a redeemed share link leaves, user 2 has no row, the share-link row or a
\* row granted with other capabilities.  The process is fresh: no client has been built.
\* actions holds the rows written from here on.
InitTables ==
    /\ next_playlist_id = 2
    /\ \E accts \in {{DefaultAccount}, {DefaultAccount, UserAccount}, {DefaultAccount, OtherAccount}} :
         /\ yandex_accounts = accts
         /\ \/ playlists = [p \in PlaylistIds |-> NoPlaylist]
            \/ \E a \in accts \ {OtherAccount}, pos \in {"start", "end"} :
                 playlists = [p \in PlaylistIds |->
                     [create_playlist_row(1, a.id, "A") EXCEPT !.share_token = p,
                                                               !.insert_position = pos]]
    /\ next_account_id = 3
    /\ \E r1 \in {FullRow, AddOnlyRow}, r2 \in {NoRow, AddOnlyRow, EditRow, EditOnlyRow} :
         playlist_access = [k \in PlaylistIds \X Users |-> IF k[2] = 1 THEN r1 ELSE r2]
    /\ actions = <<>>
    /\ default_client = NoClient
    /\ user_clients = [u \in Users |-> NoClient]
    /\ chk = NoCheck
    /\ obs = NoObs

\* one caller at a time
Init ==
    /\ InitTables
    /\ \E n \in InitSizes : remote = RemoteOfSize(n)
    /\ call = [c \in Callers |-> IdleCall]
    /\ ncalls = 0
    /\ actors = {"c1"}
    /\ insertAts = <<>>

Next ==
    \/ \E c \in Callers, u \in Users, p \in PlaylistIds, t \in TrackIds : BeginAddTrack(c, u, p, t)
    \/ \E c \in Callers, u \in Users, p \in PlaylistIds, i \in 1..MaxIndex : BeginDeleteTrack(c, u, p, i)
    \/ \E c \in Callers, u \in Users, p \in PlaylistIds, n \in Titles : BeginEditName(c, u, p, n)
    \/ \E c \in Callers, u \in Users, p \in PlaylistIds : BeginSetCover(c, u, p)
    \/ \E c \in Callers : ResolveSession(c)
    \/ \E c \in Callers : FetchForInsert(c)
    \/ \E c \in Callers : SubmitInsert(c)
    \/ \E c \in Callers : FetchForDelete(c)
    \/ \E c \in Callers : SubmitDelete(c)
    \/ \E c \in Callers : PostCheckDelete(c)
    \/ \E c \in Callers : SubmitRename(c)
    \/ \E c \in Callers : FetchForCover(c)
    \/ \E c \in Callers : SubmitCover(c)
    \/ \E c \in Callers : Return(c)

Spec == Init /\ [][Next]_vars

\* two callers at once on the playlist user 1 created under the default account;
\* user 2 holds the share-link row; caller c1 acts for user 1, caller c2 for user 2
UserOf(c) == IF c = "c1" THEN 1 ELSE 2

InitRace ==
    /\ next_playlist_id = 2
    /\ yandex_accounts = {DefaultAccount}
    /\ next_account_id = 2
    /\ \E pos \in {"start", "end"} :
         playlists = [p \in PlaylistIds |->
             [create_playlist_row(1, DefaultAccount.id, "A") EXCEPT !.share_token = p,
                                                                   !.insert_position = pos]]
    /\ playlist_access = [k \in PlaylistIds \X Users |-> IF k[2] = 1 THEN FullRow ELSE AddOnlyRow]
    /\ actions = <<>>
    /\ default_client = NoClient
    /\ user_clients = [u \in Users |-> NoClient]
    /\ chk = NoCheck
    /\ obs = NoObs
    /\ \E n \in RaceSizes : remote = RemoteOfSize(n)
    /\ call = [c \in Callers |-> IdleCall]
    /\ ncalls = 0
    /\ actors = Callers
    /\ insertAts = <<>>

NextRace ==
    \/ \E c \in Callers, p \in PlaylistIds, t \in TrackIds : BeginAddTrack(c, UserOf(c), p, t)
    \/ \E c \in Callers, p \in PlaylistIds, i \in 1..MaxIndex : BeginDeleteTrack(c, UserOf(c), p, i)
    \/ \E c \in Callers : ResolveSession(c)
    \/ \E c \in Callers : FetchForInsert(c)
    \/ \E c \in Callers : SubmitInsert(c)
    \/ \E c \in Callers : FetchForDelete(c)
    \/ \E c \in Callers : SubmitDelete(c)
    \/ \E c \in Callers : PostCheckDelete(c)
    \/ \E c \in Callers : Return(c)

SpecRace == InitRace /\ [][NextRace]_vars

\* what the chat layer does to the tables: create, share link, delete, toggle, ask
NextAccess ==
    \/ \E u \in Users, title \in Titles : CreatePlaylist(u, title)
    \/ \E u \in Users, t \in PlaylistIds : RedeemShareToken(u, t)
    \/ \E u \in Users, p \in PlaylistIds : DeletePlaylist(u, p)
    \/ \E u \in Users, p \in PlaylistIds : ToggleInsertPosition(u, p)
    \/ \E p \in PlaylistIds, u \in Users, need \in Needs : CheckAccess(p, u, need)

SpecAccess == InitAccess /\ [][NextAccess]_vars

\* the store used through its whole interface: grants carry any capability set
NextStore ==
    \/ \E u \in Users, title \in Titles : CreatePlaylist(u, title)
    \/ \E p \in PlaylistIds, u \in Users, row \in Rows : GrantAccess(p, u, row)
    \/ \E u \in Users, p \in PlaylistIds : DeletePlaylist(u, p)
    \/ \E p \in PlaylistIds, u \in Users, need \in Needs : CheckAccess(p, u, need)

SpecStore == InitAccess /\ [][NextStore]_vars

\* the store's grant alone, with what each grant found and left
NextGrant ==
    \/ \E u \in Users, title \in Titles : CreatePlaylist(u, title)
    \/ \E p \in PlaylistIds, u \in Users, row \in Rows : GrantAccessRecorded(p, u, row)
    \/ \E u \in Users, p \in PlaylistIds : DeletePlaylist(u, p)

SpecGrant == InitAccess /\ [][NextGrant]_vars

\* the client manager: tokens are stored, playlists created, sessions asked for
NextRouter ==
    \/ \E u \in Users : CreatePlaylist(u, "A")
    \/ \E u \in Users, token \in Tokens : SetUserToken(u, token)
    \/ \E u \in Users \cup {DefaultUser} : GetClient(u)
    \/ \E p \in PlaylistIds : GetClientForPlaylist(p)

\* The manager starts with empty caches over the tokens the store holds: none but the
\* default one, or user 1's personal token stored before the process was started.
InitRouter ==
    /\ playlists = [p \in PlaylistIds |-> NoPlaylist]
    /\ next_playlist_id = 1
    /\ playlist_access = [k \in PlaylistIds \X Users |-> NoRow]
    /\ \/ yandex_accounts = {[id |-> 1, telegram_id |-> DefaultUser, token |-> DefaultToken]}
          /\ next_account_id = 2
       \/ yandex_accounts = {[id |-> 1, telegram_id |-> DefaultUser, token |-> DefaultToken],
                             [id |-> 2, telegram_id |-> 1, token |-> "tokA"]}
          /\ next_account_id = 3
    /\ actions = <<>>
    /\ default_client = NoClient
    /\ user_clients = [u \in Users |-> NoClient]
    /\ remote = EmptyRemote
    /\ call = [c \in Callers |-> IdleCall]
    /\ ncalls = 0
    /\ actors = {}
    /\ insertAts = <<>>
    /\ chk = NoCheck
    /\ obs = NoObs

SpecRouter == InitRouter /\ [][NextRouter]_vars

(***************************************************************************)
(* Properties of the delete and insert loops.                              *)
(***************************************************************************)

\* C1: with no concurrent actor, a delete of track number i sends diffs only for a valid
\* i (1 <= i <= N), each with from = i-1 and to = i; when the remote applies the first
\* diff no second one is sent and the playlist has N-1 tracks, and a delete that reports
\* success after comparing the counts has had exactly one diff applied and left N-1 tracks.
C1_DeleteSendsOneDiff ==
    \A c \in Callers :
        LET cc == call[c] IN
        (cc.pc # "idle" /\ cc.op = "delete") =>
            /\ \A k \in 1..Len(cc.reqs) :
                   /\ cc.reqs[k].from = cc.index - 1
                   /\ cc.reqs[k].to = cc.index
                   /\ 1 <= cc.index /\ cc.index <= cc.size0
            /\ (Len(cc.reqs) >= 1 /\ cc.reqs[1].out = "ok") =>
                   /\ Len(cc.reqs) = 1
                   /\ cc.pc \in {"postcheck", "done"}
                   /\ Len(remote.tracks) = cc.size0 - 1
            /\ (cc.pc = "done" /\ cc.ok /\ cc.post_count # -1) =>
                   /\ cc.applied = 1
                   /\ cc.post_count = cc.size0 - 1
                   /\ Len(remote.tracks) = cc.size0 - 1

\* C1 witness: track 3 of 5 was deleted with one diff and the post-check counted 4
C1_Witness ==
    /\ call["c1"].pc = "done"
    /\ call["c1"].op = "delete"
    /\ call["c1"].ok
    /\ call["c1"].index = 3
    /\ call["c1"].size0 = 5
    /\ Len(call["c1"].reqs) = 1
    /\ call["c1"].reqs[1].from = 2
    /\ call["c1"].reqs[1].to = 3
    /\ call["c1"].post_count = 4
    /\ Len(remote.tracks) = 4

\* C2: when the first insert request of a call is answered with a revision conflict the
\* call fetches the playlist again before anything else, and when the request sent after
\* that fetch is accepted the call returns success having made exactly 2 fetches and
\* exactly 2 insert requests.
C2_ConflictThenAccepted ==
    \A c \in Callers :
        LET cc == call[c] IN
        (cc.pc # "idle" /\ cc.op = "insert" /\ Len(cc.reqs) >= 1
            /\ cc.reqs[1].out = "wrong-revision") =>
            /\ Len(cc.reqs) = 1 =>
                   \/ cc.pc = "fetch" /\ cc.attempt = 1 /\ cc.fetches = 1
                   \/ cc.pc = "submit" /\ cc.attempt = 1 /\ cc.fetches = 2
                   \/ cc.pc = "done" /\ ~cc.ok /\ cc.fetches = 2
            /\ (Len(cc.reqs) >= 2 /\ cc.reqs[2].out = "ok") =>
                   /\ cc.pc = "done"
                   /\ cc.ok
                   /\ cc.fetches = 2
                   /\ Len(cc.reqs) = 2

\* C2 witness: a call returned success after a conflict and an accepted second request
C2_Witness ==
    \E c \in Callers :
        /\ call[c].pc = "done"
        /\ call[c].op = "insert"
        /\ call[c].ok
        /\ Len(call[c].reqs) = 2
        /\ call[c].reqs[1].out = "wrong-revision"
        /\ call[c].reqs[2].out = "ok"
        /\ call[c].fetches = 2

\* C3: with insert calls running at once, an insert request is applied only when the
\* revision it carries is the playlist's revision at that moment, a request carrying
\* another revision is never applied, no call has more than one insert applied, a call
\* that returns success has had exactly one applied and a call that returns failure none.
C3_AppliedOnlyOnCurrentRevision ==
    \A c \in Callers :
        LET cc == call[c] IN
        (cc.pc # "idle" /\ cc.op = "insert") =>
            /\ \A k \in 1..Len(cc.reqs) :
                   /\ cc.reqs[k].out = "ok" => cc.reqs[k].revision = cc.reqs[k].remote_revision
                   /\ cc.reqs[k].revision # cc.reqs[k].remote_revision => cc.reqs[k].out # "ok"
            /\ cc.applied = Cardinality({k \in 1..Len(cc.reqs) : cc.reqs[k].out = "ok"})
            /\ cc.applied <= 1
            /\ (cc.pc = "done" /\ cc.ok) => cc.applied = 1
            /\ (cc.pc = "done" /\ ~cc.ok) => cc.applied = 0

\* C3 witness: both callers inserted at once, one of them after a conflict, and both
\* tracks are in the playlist
C3_Witness ==
    /\ call["c1"].pc = "done" /\ call["c1"].op = "insert" /\ call["c1"].ok
    /\ call["c2"].pc = "done" /\ call["c2"].op = "insert" /\ call["c2"].ok
    /\ Len(call["c1"].reqs) = 2
    /\ call["c1"].reqs[1].out = "wrong-revision"
    /\ call["c1"].applied = 1
    /\ call["c2"].applied = 1
    /\ Cardinality({i \in 1..Len(remote.tracks) : remote.tracks[i] = "ta"}) = 2

\* C4: every insert or delete request carries the revision read by the fetch made in the
\* same pass of the loop: the k-th request of a call belongs to pass k-1, the snapshot it
\* was built from was fetched in that pass, and a call waiting to send holds the revision
\* of a fetch of its current pass.
C4_RevisionFromSameAttempt ==
    \A c \in Callers :
        LET cc == call[c] IN
        (cc.pc # "idle" /\ cc.op \in {"insert", "delete"}) =>
            /\ \A k \in 1..Len(cc.reqs) :
                   /\ cc.reqs[k].attempt = k - 1
                   /\ cc.reqs[k].fetched_attempt = cc.reqs[k].attempt
                   /\ cc.reqs[k].revision = cc.reqs[k].fetched_revision
            /\ cc.pc = "submit" =>
                   /\ cc.fetched_attempt = cc.attempt
                   /\ cc.revision = cc.fetched_revision
            /\ cc.fetches >= Len(cc.reqs)

\* C4 witness: a delete was refused for its revision and sent again with the revision
\* read by the second fetch
C4_Witness ==
    \E c \in Callers :
        /\ call[c].pc # "idle"
        /\ call[c].op = "delete"
        /\ Len(call[c].reqs) = 2
        /\ call[c].reqs[1].out = "wrong-revision"
        /\ call[c].reqs[2].revision > call[c].reqs[1].revision
        /\ call[c].reqs[2].revision = call[c].reqs[2].remote_revision

(***************************************************************************)
(* Properties of the permission gates.                                     *)
(***************************************************************************)

\* C5: an add-track call by a user whose access row for an existing playlist is missing
\* or lacks can_add ends at once with the permission failure, whatever personal account
\* the user has stored: no client is resolved, nothing is fetched, no request is sent.
C5_NoAddNoInsert ==
    \A c \in Callers :
        LET cc == call[c] IN
        (cc.pc # "idle" /\ cc.op = "insert" /\ get_playlist(cc.playlist_id) # NoPlaylist
            /\ (access_row(cc.playlist_id, cc.user) = NoRow
                   \/ ~access_row(cc.playlist_id, cc.user).can_add)) =>
            /\ cc.pc = "done"
            /\ ~cc.ok
            /\ cc.error = "denied"
            /\ cc.sessions = 0
            /\ cc.fetches = 0
            /\ cc.reqs = <<>>
            /\ cc.applied = 0
            /\ Len(remote.tracks) = cc.size0

\* C5 witness: user 2 has stored a personal token and holds a row with can_edit but
\* without can_add; the add-track call was refused
C5_Witness ==
    /\ call["c1"].pc = "done"
    /\ call["c1"].op = "insert"
    /\ call["c1"].user = 2
    /\ call["c1"].error = "denied"
    /\ get_user_yandex_token(2) # NoToken
    /\ access_row(1, 2) = EditOnlyRow

C7_NoOpDeleteFails ==
    \A c \in Callers :
        LET cc == call[c] IN
        (cc.pc # "idle" /\ cc.op = "delete") =>
            /\ (cc.pc = "done" /\ cc.ok) =>
                   \/ cc.post_count = -1
                   \/ cc.post_count < cc.tracks_count_before
            /\ cc.noops <= max_retries
            /\ cc.noops = 1 =>
                   /\ cc.attempt = 1
                   /\ \/ cc.pc = "fetch" /\ Len(cc.reqs) = 1 /\ cc.fetches = 2
                      \/ cc.pc = "submit" /\ Len(cc.reqs) = 1 /\ cc.fetches = 3
                      \/ cc.pc = "postcheck" /\ Len(cc.reqs) = 2
                      \/ cc.pc = "done" /\ cc.fetches >= 3
            /\ cc.noops = 2 =>
                   /\ cc.pc = "done"
                   /\ ~cc.ok
                   /\ cc.error = "noop"
                   /\ cc.attempt = max_retries - 1
                   /\ Len(cc.reqs) = 2
                   /\ cc.fetches = 4
            /\ (cc.pc = "done" /\ cc.error = "noop") => cc.noops = 2

\* C7 witness: both delete requests were answered 200, both post-checks counted the
\* same 5 tracks, and the call failed
C7_Witness ==
    /\ call["c1"].pc = "done"
    /\ call["c1"].op = "delete"
    /\ ~call["c1"].ok
    /\ call["c1"].error = "noop"
    /\ call["c1"].noops = 2
    /\ Len(call["c1"].reqs) = 2
    /\ call["c1"].reqs[1].out = "noop"
    /\ call["c1"].reqs[2].out = "noop"
    /\ Len(remote.tracks) = 5
    /\ call["c1"].size0 = 5

\* C8: check_playlist_access answers FALSE when the pair has no access row and the user
\* is not the creator, FALSE when the row lacks a needed capability, TRUE in every other
\* case.
C8_CheckAnswers ==
    chk # NoCheck =>
        LET row == chk.row
            need == chk.need
            lacks == /\ row # NoRow
                     /\ \/ need.need_add /\ ~row.can_add
                        \/ need.need_edit /\ ~row.can_edit
                        \/ need.need_delete /\ ~row.can_delete
        IN /\ (row = NoRow /\ ~chk.creator) => ~chk.result
           /\ lacks => ~chk.result
           /\ (~(row = NoRow /\ ~chk.creator) /\ ~lacks) => chk.result

\* C8 witness: a user holding a row without can_edit asked for edit and got FALSE
C8_Witness ==
    /\ chk # NoCheck
    /\ chk.row # NoRow
    /\ chk.row.can_add
    /\ ~chk.row.can_edit
    /\ chk.need.need_edit
    /\ ~chk.creator
    /\ ~chk.result

\* C9: the creator of every existing playlist passes check_playlist_access for every
\* combination of needed capabilities.
C9_CreatorHoldsAll ==
    \A p \in PlaylistIds :
        get_playlist(p) # NoPlaylist =>
            \A need \in Needs :
                check_playlist_access(p, get_playlist(p).creator_telegram_id, need)

\* C10: a rename or set-cover call on an existing playlist passes the gate exactly when
\* the caller is the creator recorded in the playlists row, whatever the access rows say:
\* the creator goes on to resolve a client, anybody else is refused before any client is
\* resolved and before any request.
C10_CreatorGate ==
    \A c \in Callers :
        LET cc == call[c] IN
        (cc.pc # "idle" /\ cc.op \in {"rename", "cover"}
            /\ get_playlist(cc.playlist_id) # NoPlaylist) =>
            IF get_playlist(cc.playlist_id).creator_telegram_id = cc.user
            THEN /\ cc.error # "not_creator"
                 /\ cc.pc = "session" \/ cc.sessions = 1
            ELSE /\ cc.pc = "done"
                 /\ ~cc.ok
                 /\ cc.error = "not_creator"
                 /\ cc.sessions = 0
                 /\ cc.fetches = 0
                 /\ cc.reqs = <<>>

\* C10 witness: user 2 holds a row with can_edit and was refused the rename
C10_Witness ==
    /\ call["c1"].pc = "done"
    /\ call["c1"].op = "rename"
    /\ call["c1"].user = 2
    /\ call["c1"].error = "not_creator"
    /\ access_row(1, 2) = EditRow
    /\ call["c1"].reqs = <<>>

C13_PinnedNeverViaDefault ==
    \A c \in Callers :
        LET cc == call[c] IN
        (cc.pc # "idle" /\ cc.reqs # <<>> /\ playlists[cc.playlist_id] # NoPlaylist) =>
            LET account == get_yandex_account_by_id(playlists[cc.playlist_id].yandex_account_id) IN
            account.telegram_id # DefaultUser => cc.client.acct = account.telegram_id

(***************************************************************************)
(* C14: get_client returns the shared default client, initialised by a     *)
(* handshake on first use only, when no telegram id is given or the user   *)
(* has no stored token; a user with a stored token gets the cached client  *)
(* with no handshake when there is one, and otherwise a client built from  *)
(* the stored token by one handshake and left in the cache.                *)
(***************************************************************************)
C14_GetClient ==
    obs.kind = "get" =>
        LET u == obs.telegram_id IN
        /\ (u = DefaultUser \/ obs.stored = NoToken) =>
               /\ obs.ucl_after = obs.ucl_before
               /\ obs.dflt_before # NoClient =>
                      (~obs.raised /\ obs.hs = <<>> /\ obs.client = DefaultClient)
               /\ obs.dflt_before = NoClient =>
                      /\ obs.hs # <<>>
                      /\ \A i \in 1..Len(obs.hs) : obs.hs[i].token = DefaultToken
                      /\ Len(obs.hs) = 1
                      /\ obs.hs[1].result = "ok" =>
                             (~obs.raised /\ obs.client = DefaultClient
                                /\ obs.dflt_after = DefaultToken)
        /\ (u # DefaultUser /\ obs.stored # NoToken /\ obs.ucl_before[u] # NoClient) =>
               /\ ~obs.raised
               /\ obs.hs = <<>>
               /\ obs.client = [acct |-> u, token |-> obs.ucl_before[u]]
               /\ obs.ucl_after = obs.ucl_before
        /\ (u # DefaultUser /\ obs.stored # NoToken /\ obs.ucl_before[u] = NoClient) =>
               /\ obs.hs # <<>>
               /\ obs.hs[1].token = obs.stored
               /\ obs.hs[1].result = "ok" =>
                      /\ ~obs.raised
                      /\ Len(obs.hs) = 1
                      /\ obs.client = [acct |-> u, token |-> obs.stored]
                      /\ obs.ucl_after = [obs.ucl_before EXCEPT ![u] = obs.stored]

\* a later call of a user with a stored token: served from the cache, no handshake
C14_Witness ==
    /\ obs.kind = "get"
    /\ obs.telegram_id # DefaultUser
    /\ obs.stored # NoToken
    /\ obs.ucl_before[obs.telegram_id] = obs.stored
    /\ obs.hs = <<>>
    /\ obs.client = [acct |-> obs.telegram_id, token |-> obs.stored]

(***************************************************************************)
(* C15: when the handshake of the new token fails, set_user_token answers  *)
(* False and leaves the stored tokens and the cached clients exactly as    *)
(* they were.                                                              *)
(***************************************************************************)
C15_FailedSetLeavesState ==
    (obs.kind = "set" /\ obs.init_result # "ok") =>
        /\ ~obs.result
        /\ obs.accounts_after = obs.accounts_before
        /\ obs.ucl_after = obs.ucl_before

\* a failed set_user_token of a user who has a stored token and a cached client
C15_Witness ==
    /\ obs.kind = "set"
    /\ obs.init_result # "ok"
    /\ ~obs.result
    /\ obs.ucl_before[obs.telegram_id] # NoClient
    /\ obs.ucl_before[obs.telegram_id] # obs.token
    /\ \E a \in obs.accounts_after : a.telegram_id = obs.telegram_id
    /\ user_clients[obs.telegram_id] = obs.ucl_before[obs.telegram_id]

(***************************************************************************)
(* C16: when the handshake of the new token succeeds, set_user_token       *)
(* stores the token and replaces the cached client by one built from it;   *)
(* a get_client that returns a user's own client returns one built from    *)
(* the token stored at that moment, never from an older one.  Calls are    *)
(* taken one at a time here.                                               *)
(***************************************************************************)
C16_SetReplacesSession ==
    /\ (obs.kind = "set" /\ obs.init_result = "ok") =>
           /\ obs.result
           /\ \E a \in obs.accounts_after :
                  a.telegram_id = obs.telegram_id /\ a.token = obs.token
           /\ \A a \in obs.accounts_after : a.telegram_id = obs.telegram_id => a.token = obs.token
           /\ obs.ucl_after[obs.telegram_id] = obs.token
    /\ (obs.kind = "get" /\ obs.client.acct # DefaultUser) =>
           /\ obs.client.acct = obs.telegram_id
           /\ obs.client.token = obs.stored

\* the first get_client after a set_user_token that replaced a client of another token
C16_Witness ==
    /\ obs.kind = "get"
    /\ obs.telegram_id # DefaultUser
    /\ obs.hs = <<>>
    /\ obs.after_replace
    /\ obs.client = [acct |-> obs.telegram_id, token |-> obs.stored]

(***************************************************************************)
(* C17: client creation runs client.init() again only after a timeout or   *)
(* connection error and at most MAX_RETRIES = 3 times in all; any other    *)
(* error ends it at the attempt where it happens (after exactly one        *)
(* attempt when it is the first outcome); three timeouts end it with the   *)
(* last timeout error.                                                     *)
(***************************************************************************)
C17_RetryOnlyOnTimeout ==
    obs.kind = "set" =>
        /\ obs.attempts \in 1..MAX_RETRIES
        /\ obs.attempts <= 3
        /\ \A i \in 1..(obs.attempts - 1) : obs.outs[i] = "timeout"
        /\ obs.init_result = obs.outs[obs.attempts]
        /\ obs.outs[obs.attempts] = "timeout" => obs.attempts = 3
        /\ obs.outs[1] = "error" => (obs.attempts = 1 /\ obs.init_result = "error")
        /\ (\A i \in 1..3 : obs.outs[i] = "timeout") =>
               (obs.attempts = 3 /\ obs.init_result = "timeout" /\ ~obs.result)

\* three timeouts in a row: three attempts, the timeout is what comes out
C17_Witness ==
    /\ obs.kind = "set"
    /\ \A i \in 1..3 : obs.outs[i] = "timeout"
    /\ obs.attempts = 3
    /\ obs.init_result = "timeout"

(***************************************************************************)
(* C12: get_client_for_playlist returns a client of the account the        *)
(* playlist referenced at creation: for a playlist created under the       *)
(* creator's personal account, and a creator whose client is in the cache  *)
(* (so no handshake can fail), the client returned is the creator's, never *)
(* the default one.  set_user_yandex_token replaces the creator's account  *)
(* row by one with a new id, so the statement does not hold of the code.   *)
(***************************************************************************)
C12_PlaylistKeepsAccount ==
    (/\ obs.kind = "get_for_playlist"
     /\ ~obs.raised
     /\ obs.account_id \notin {0, DefaultAccount.id}
     /\ obs.ucl_before[obs.creator] # NoClient) =>
        obs.client.acct = obs.creator

(***************************************************************************)
(* C18, as stated: once a default-client initialisation has failed, no     *)
(* later request is served with a client.  The code initialises the        *)
(* default client lazily on every request that needs it, so a later        *)
(* request is served as soon as the handshake succeeds.                    *)
(***************************************************************************)
C18_DefaultFailureIsFatal ==
    (obs.kind \in {"get", "get_for_playlist"} /\ obs.failed_before) => obs.raised

(***************************************************************************)
(* C18, amended: a failed default-client initialisation fails the request  *)
(* that needed it, with RuntimeError, and leaves the default client unset; *)
(* nothing else makes a request raise; a later request that needs the      *)
(* default client runs the handshake again and is served when it succeeds. *)
(***************************************************************************)
C18_DefaultFailureFailsRequest ==
    obs.kind \in {"get", "get_for_playlist"} =>
        LET ranDefault == \E i \in 1..Len(obs.hs) : obs.hs[i].token = DefaultToken
            failedDefault == \E i \in 1..Len(obs.hs) :
                                 obs.hs[i].token = DefaultToken /\ obs.hs[i].result # "ok"
        IN
        /\ failedDefault => (obs.raised /\ obs.dflt_after = NoClient)
        /\ obs.raised => failedDefault
        /\ ranDefault => obs.dflt_before = NoClient
        /\ (ranDefault /\ ~failedDefault) =>
               (~obs.raised /\ obs.client = DefaultClient /\ obs.dflt_after = DefaultToken)

\* a request served with the default client after an earlier initialisation had failed
C18_Witness ==
    /\ obs.kind \in {"get", "get_for_playlist"}
    /\ obs.failed_before
    /\ ~obs.raised
    /\ obs.client = DefaultClient
    /\ obs.hs # <<>>
    /\ obs.hs[Len(obs.hs)] = [token |-> DefaultToken, result |-> "ok"]

(***************************************************************************)
(* C19: after a call made through a cached client has failed with an       *)
(* auth-invalid error, the client is evicted, so the next resolution of    *)
(* the same identity runs a new handshake.  Nothing in the code removes a  *)
(* client from the cache, so the statement does not hold of the code.      *)
(***************************************************************************)
C19_EvictedAfterAuthInvalid ==
    \A c \in Callers :
        LET cc == call[c] IN
        (cc.pc # "idle" /\ cc.after_auth_invalid) => cc.handshakes > 0

(***************************************************************************)
(* C20: a rename that succeeds leaves the local title equal to the new     *)
(* title; a rename that fails (not the creator, no such playlist, the      *)
(* remote call failing, no session) leaves the local title as it was when  *)
(* the call began.                                                         *)
(***************************************************************************)
C20_RenameMirrorsTitle ==
    \A c \in Callers :
        LET cc == call[c] IN
        (cc.pc \in {"done", "raised"} /\ cc.op = "rename") =>
            /\ (cc.pc = "done" /\ cc.ok) =>
                   /\ playlists[cc.playlist_id] # NoPlaylist
                   /\ playlists[cc.playlist_id].title = cc.new_name
            /\ ~(cc.pc = "done" /\ cc.ok) =>
                   /\ cc.title0 = "" => playlists[cc.playlist_id] = NoPlaylist
                   /\ cc.title0 # "" =>
                          /\ playlists[cc.playlist_id] # NoPlaylist
                          /\ playlists[cc.playlist_id].title = cc.title0

\* a rename to another title has succeeded and the local title is the new one
C20_Witness ==
    \E c \in Callers :
        LET cc == call[c] IN
        /\ cc.pc = "done"
        /\ cc.op = "rename"
        /\ cc.ok
        /\ cc.new_name # cc.title0
        /\ playlists[cc.playlist_id].title = cc.new_name

(***************************************************************************)
(* C21: after set_playlist_cover has succeeded, the local playlist's       *)
(* cover field mirrors the remote cover.  set_playlist_cover writes the    *)
(* action log only and never the playlists row, so the statement does not  *)
(* hold of the code.                                                       *)
(***************************************************************************)
C21_CoverMirrored ==
    \A c \in Callers :
        LET cc == call[c] IN
        (cc.pc = "done" /\ cc.op = "cover" /\ cc.ok) =>
            playlists[cc.playlist_id].cover_url = remote.cover

(***************************************************************************)
(* C22: a rename or cover upload rejected by moderation is not sent again  *)
(* (the rejected request is the only one of its call) and the call returns *)
(* the remote's rejection text word for word.  set_playlist_name returns a *)
(* fixed message of its own and set_playlist_cover puts the status line    *)
(* before the text, so the statement does not hold of the code.            *)
(***************************************************************************)
C22_ModerationVerbatim ==
    \A c \in Callers :
        LET cc == call[c] IN
        (/\ cc.pc # "idle"
         /\ cc.op \in {"rename", "cover"}
         /\ cc.reqs # <<>>
         /\ cc.reqs[1].out \in {"moderation", "rejected"}) =>
            /\ cc.pc = "done"
            /\ ~cc.ok
            /\ Len(cc.reqs) = 1
            /\ cc.message = cc.reqs[1].text

(***************************************************************************)
(* C23: a timeout or connection error on the first rename request is       *)
(* answered with one more request: a finished rename whose first request   *)
(* ended that way has sent exactly two, has succeeded if the second one    *)
(* did, and no rename sends more than two.  The clause for TimedOutError   *)
(* is never entered, so a timeout ends the call after one request and the  *)
(* statement does not hold of the code.                                    *)
(***************************************************************************)
C23_TransientRetriedOnce ==
    \A c \in Callers :
        LET cc == call[c] IN
        (cc.pc # "idle" /\ cc.op = "rename") =>
            /\ Len(cc.reqs) <= 2
            /\ (cc.pc = "done" /\ cc.reqs # <<>> /\ cc.reqs[1].out \in {"timeout", "connection"}) =>
                   /\ Len(cc.reqs) = 2
                   /\ cc.reqs[2].out = "ok" => cc.ok

(***************************************************************************)
(* C24: add_track, delete_track, edit_playlist_name and set_playlist_cover *)
(* never raise for an expected outcome, a session that cannot be had       *)
(* included: no call ends by raising.  _ensure_default_client raises       *)
(* RuntimeError and nothing between it and the caller catches it, so the   *)
(* statement does not hold of the code.                                    *)
(***************************************************************************)
C24_NeverRaises ==
    \A c \in Callers : call[c].pc # "raised"

(***************************************************************************)
(* C25: every attempted mutation leaves an entry in the actions table; in  *)
(* particular, once add_track has returned success the table holds a       *)
(* track_added row of that user and playlist.  add_track hands log_action, *)
(* a coroutine function, to asyncio.to_thread, so the row is never         *)
(* written, and a failed call logs nothing at all; the statement does not  *)
(* hold of the code.                                                       *)
(***************************************************************************)
C25_InsertIsLogged ==
    \A c \in Callers :
        LET cc == call[c] IN
        (cc.pc = "done" /\ cc.op = "insert" /\ cc.ok) =>
            \E i \in 1..Len(actions) :
                /\ actions[i].action_type = "track_added"
                /\ actions[i].telegram_id = cc.user
                /\ actions[i].playlist_id = cc.playlist_id

(***************************************************************************)
(* C26: delete_track requires can_edit.  A delete_track call on an         *)
(* existing playlist by a user whose access row lacks can_edit, or who has *)
(* no access row, ends with the permission failure, and it has resolved no *)
(* session, fetched nothing and sent no request.                           *)
(***************************************************************************)
C26_DeleteNeedsEdit ==
    \A c \in Callers :
        LET cc == call[c] IN
        (/\ cc.pc # "idle"
         /\ cc.op = "delete"
         /\ playlists[cc.playlist_id] # NoPlaylist
         /\ \/ playlist_access[<<cc.playlist_id, cc.user>>] = NoRow
            \/ ~playlist_access[<<cc.playlist_id, cc.user>>].can_edit) =>
            /\ cc.pc = "done"
            /\ ~cc.ok
            /\ cc.error = "denied"
            /\ cc.sessions = 0
            /\ cc.fetches = 0
            /\ cc.reqs = <<>>
            /\ cc.applied = 0

\* a share-link grantee (can_add only) has asked to delete a track and was refused
C26_Witness ==
    \E c \in Callers :
        LET cc == call[c] IN
        /\ cc.pc = "done"
        /\ cc.op = "delete"
        /\ playlist_access[<<cc.playlist_id, cc.user>>] = AddOnlyRow
        /\ playlists[cc.playlist_id] # NoPlaylist
        /\ playlists[cc.playlist_id].creator_telegram_id # cc.user
        /\ cc.error = "denied"
        /\ cc.sessions = 0

(***************************************************************************)
(* Deleting a playlist.                                                    *)
(***************************************************************************)
\* Database.delete_playlist: DELETE FROM playlists WHERE id = ?
delete_playlist(p) == [playlists EXCEPT ![p] = NoPlaylist]

\* CallbackHandlers._handle_delete_playlist as a whole, refusals included, with the
\* tables and the remote playlist it found and left written down
DeletePlaylistRecorded(u, p) ==
    LET found == get_playlist(p) # NoPlaylist
        allowed == found /\ is_playlist_creator(p, u)
    IN
    /\ playlists' = IF allowed THEN delete_playlist(p) ELSE playlists
    /\ actions' = IF allowed THEN log_action(u, "playlist_deleted", p) ELSE actions
    /\ UNCHANGED <<next_playlist_id, playlist_access, yandex_accounts, next_account_id,
                   default_client, user_clients, remote, call, ncalls, actors, insertAts, chk>>
    /\ obs' = [kind |-> "delete", playlist_id |-> p, telegram_id |-> u,
               reply |-> IF ~found THEN "PLAYLIST_NOT_FOUND"
                         ELSE IF ~allowed THEN "ONLY_CREATOR_CAN_DELETE" ELSE "deleted",
               playlists_before |-> playlists, playlists_after |-> playlists',
               remote_before |-> remote, remote_after |-> remote',
               call_before |-> call, call_after |-> call']

\* the tables of InitAccess, the remote playlist holding any number of tracks
InitDelete ==
    /\ playlists = [p \in PlaylistIds |-> NoPlaylist]
    /\ next_playlist_id = 1
    /\ playlist_access = [k \in PlaylistIds \X Users |-> NoRow]
    /\ yandex_accounts = {[id |-> 1, telegram_id |-> DefaultUser, token |-> DefaultToken]}
    /\ next_account_id = 2
    /\ actions = <<>>
    /\ default_client = NoClient
    /\ user_clients = [u \in Users |-> NoClient]
    /\ \E n \in InitSizes : remote = RemoteOfSize(n)
    /\ call = [c \in Callers |-> IdleCall]
    /\ ncalls = 0
    /\ actors = {}
    /\ insertAts = <<>>
    /\ chk = NoCheck
    /\ obs = NoObs

\* playlists are created, shared, granted on and deleted
NextDelete ==
    \/ \E u \in Users, title \in Titles : CreatePlaylist(u, title)
    \/ \E u \in Users, t \in PlaylistIds : RedeemShareToken(u, t)
    \/ \E p \in PlaylistIds, u \in Users, row \in Rows : GrantAccess(p, u, row)
    \/ \E u \in Users, p \in PlaylistIds : DeletePlaylistRecorded(u, p)

SpecDelete == InitDelete /\ [][NextDelete]_vars

(***************************************************************************)
(* C27: deleting a playlist is allowed only to its creator and removes the *)
(* local playlist record only: every delete request that removed a record  *)
(* came from the creator of that record, a request from anyone else leaves *)
(* the playlists table as it was, and in either case no call to the remote *)
(* service is started and the remote playlist is exactly what it was.      *)
(***************************************************************************)
C27_DeleteIsLocalAndCreatorOnly ==
    obs.kind = "delete" =>
        LET p == obs.playlist_id
            was == obs.playlists_before[p]
        IN
        /\ obs.remote_after = obs.remote_before
        /\ obs.call_after = obs.call_before
        /\ \A q \in PlaylistIds \ {p} : obs.playlists_after[q] = obs.playlists_before[q]
        /\ IF was # NoPlaylist /\ was.creator_telegram_id = obs.telegram_id
           THEN obs.playlists_after[p] = NoPlaylist /\ obs.reply = "deleted"
           ELSE obs.playlists_after[p] = was /\ obs.reply # "deleted"

\* the creator has deleted a playlist on which the other user held an access row
\* with the edit capability, and the remote playlist still holds its tracks
C27_Witness ==
    /\ obs.kind = "delete"
    /\ obs.reply = "deleted"
    /\ obs.playlists_before[obs.playlist_id].creator_telegram_id = obs.telegram_id
    /\ \E u \in Users \ {obs.telegram_id} :
         /\ playlist_access[<<obs.playlist_id, u>>] # NoRow
         /\ playlist_access[<<obs.playlist_id, u>>].can_edit
    /\ Len(remote.tracks) > 0
    /\ remote = obs.remote_before

(***************************************************************************)
(* The attempt loops of insert_track_to_playlist and                       *)
(* delete_track_from_playlist run to their end.                            *)
(***************************************************************************)
\* one step of caller c inside a loop: a fetch, a request or the check after a delete.
\* Each is straight-line code around one remote call that returns or raises (the HTTP
\* calls carry a timeout), so a call inside a loop always takes its next step.
LoopStep(c) ==
    \/ FetchForInsert(c)
    \/ SubmitInsert(c)
    \/ FetchForDelete(c)
    \/ SubmitDelete(c)
    \/ PostCheckDelete(c)

\* two callers at once, every call inside a loop keeps running
SpecRaceFair == SpecRace /\ \A c \in Callers : WF_vars(LoopStep(c))

\* caller c is inside an attempt loop
InLoop(c) == call[c].pc \in {"fetch", "submit", "postcheck"}

(***************************************************************************)
(* C28: every insert and delete call that has entered its attempt loop     *)
(* ends in a terminal state, success or failure, whatever the remote       *)
(* answers; it makes at most max_retries = 2 passes (pass numbers 0 and 1, *)
(* at most one request per pass, at most one fetch before each request and *)
(* one check after a delete request); and the pass number goes up only by  *)
(* one, only from inside the loop back to the fetch, and only while it is  *)
(* below max_retries - 1.                                                  *)
(***************************************************************************)
C28_LoopTerminatesWithinTwoPasses ==
    /\ \A c \in Callers : InLoop(c) ~> (call[c].pc = "done")
    /\ [](\A c \in Callers :
            LET cc == call[c] IN
            (cc.pc # "idle" /\ cc.op \in {"insert", "delete"}) =>
                /\ cc.attempt \in 0..(max_retries - 1)
                /\ Len(cc.reqs) <= cc.attempt + 1
                /\ Len(cc.reqs) <= max_retries
                /\ cc.fetches <= (IF cc.op = "insert" THEN 1 ELSE 2) * (cc.attempt + 1)
                /\ cc.pc \in {"session", "fetch", "submit", "postcheck", "done", "raised"}
                /\ cc.pc = "raised" => cc.fetches = 0 /\ cc.reqs = <<>>)
    /\ [][\A c \in Callers :
            (call[c].pc # "idle" /\ call'[c].pc # "idle" /\ call'[c].attempt # call[c].attempt) =>
                /\ call[c].pc \in {"fetch", "submit", "postcheck"}
                /\ call[c].attempt < max_retries - 1
                /\ call'[c].attempt = call[c].attempt + 1
                /\ call'[c].pc = "fetch"]_vars

\* an insert call met a revision conflict on each of its two passes and has returned
\* its failure, while the other caller's inserts went through
C28_Witness ==
    \E c \in Callers :
        /\ call[c].pc = "done"
        /\ call[c].op = "insert"
        /\ ~call[c].ok
        /\ call[c].attempt = max_retries - 1
        /\ call[c].fetches = max_retries
        /\ Len(call[c].reqs) = max_retries
        /\ call[c].reqs[1].out = "wrong-revision"
        /\ call[c].reqs[2].out = "wrong-revision"

(***************************************************************************)
(* C29: when a pass of an insert call fails with anything but a revision   *)
(* conflict (the fetch returns nothing, the fetch raises, the request is   *)
(* rejected for another reason) the call returns that failure at once: the *)
(* failing pass made exactly one fetch and at most one request, it is the  *)
(* last pass, and nothing is fetched or sent after it.  A failure in the   *)
(* first pass therefore leaves exactly one fetch and at most one request.  *)
(***************************************************************************)
C29_OtherErrorStopsAtOnce ==
    \A c \in Callers :
        LET cc == call[c] IN
        (cc.pc # "idle" /\ cc.op = "insert") =>
            /\ \A k \in 1..Len(cc.reqs) :
                   cc.reqs[k].out = "rejected" =>
                       /\ k = Len(cc.reqs)
                       /\ cc.pc = "done"
                       /\ ~cc.ok
                       /\ cc.error = "insert_error"
                       /\ cc.detail = "rejected"
                       /\ cc.attempt = k - 1
                       /\ cc.fetches = k
            /\ (cc.pc = "done" /\ (cc.error = "no_playlist" \/ cc.detail = "fetch-failed")) =>
                   /\ ~cc.ok
                   /\ cc.fetches = cc.attempt + 1
                   /\ Len(cc.reqs) = cc.attempt
            /\ (cc.pc = "done" /\ ~cc.ok /\ cc.fetches >= 1 /\ cc.detail # "wrong-revision") =>
                   /\ \A k \in 1..(Len(cc.reqs) - 1) : cc.reqs[k].out = "wrong-revision"
                   /\ cc.attempt = 0 => (cc.fetches = 1 /\ Len(cc.reqs) <= 1)

\* the first insert request of a call was rejected for a reason other than the revision
\* and the call has returned its failure after that one fetch and one request
C29_Witness ==
    \E c \in Callers :
        /\ call[c].pc = "done"
        /\ call[c].op = "insert"
        /\ ~call[c].ok
        /\ call[c].detail = "rejected"
        /\ call[c].fetches = 1
        /\ Len(call[c].reqs) = 1
        /\ call[c].attempt = 0
        /\ call[c].applied = 0

(***************************************************************************)
(* C30: when both insert requests of a call (max_retries = 2) are answered *)
(* with a revision conflict, the call returns a failure that carries the   *)
(* conflict of the last request, nothing more is fetched or sent, and none *)
(* of the call's requests was applied to the remote playlist: each carried *)
(* a revision the playlist had already left.                               *)
(***************************************************************************)
C30_ExhaustedReturnsLastConflict ==
    \A c \in Callers :
        LET cc == call[c] IN
        (/\ cc.pc # "idle"
         /\ cc.op = "insert"
         /\ Len(cc.reqs) = max_retries
         /\ \A k \in 1..max_retries : cc.reqs[k].out = "wrong-revision") =>
            /\ cc.pc = "done"
            /\ ~cc.ok
            /\ cc.error = "insert_error"
            /\ cc.detail = cc.reqs[max_retries].out
            /\ cc.fetches = max_retries
            /\ cc.applied = 0
            /\ \A k \in 1..max_retries : cc.reqs[k].revision # cc.reqs[k].remote_revision

\* caller c1's two insert requests both met a revision conflict, because caller c2
\* inserted a track before each of them; c1 has returned the failure
C30_Witness ==
    /\ call["c1"].pc = "done"
    /\ call["c1"].op = "insert"
    /\ ~call["c1"].ok
    /\ call["c1"].detail = "wrong-revision"
    /\ Len(call["c1"].reqs) = 2
    /\ call["c1"].reqs[1].out = "wrong-revision"
    /\ call["c1"].reqs[2].out = "wrong-revision"
    /\ call["c1"].reqs[2].revision > call["c1"].reqs[1].revision
    /\ call["c1"].applied = 0
    /\ Len(remote.tracks) = call["c1"].size0 + 2

(***************************************************************************)
(* C31: a delete call checks its index range against the track count of    *)
(* the snapshot fetched in the same pass, on every pass: every diff sent   *)
(* is for a range inside the snapshot fetched in the pass that sent it,    *)
(* and a call whose range is outside the snapshot of some pass (the first, *)
(* or a retry after the list shrank) is done with the out-of-range failure *)
(* in that pass, without a diff sent in that pass and without a retry.     *)
(***************************************************************************)
C31_RangeCheckedEveryPass ==
    \A c \in Callers :
        LET cc == call[c] IN
        (cc.pc # "idle" /\ cc.op = "delete") =>
            /\ \A k \in 1..Len(cc.reqs) :
                   /\ cc.reqs[k].fetched_attempt = cc.reqs[k].attempt
                   /\ cc.reqs[k].from >= 0
                   /\ cc.reqs[k].from < cc.reqs[k].fetched_count
                   /\ cc.reqs[k].to - 1 < cc.reqs[k].fetched_count
            /\ cc.pc = "submit" =>
                   /\ cc.fetched_attempt = cc.attempt
                   /\ cc.to_idx < cc.fetched_count
            /\ (cc.pc = "done" /\ cc.error = "out_of_range") =>
                   /\ ~cc.ok
                   /\ cc.fetched_attempt = cc.attempt
                   /\ cc.to_idx >= cc.fetched_count
                   /\ cc.fetches = 2 * cc.attempt + 1 \/ cc.fetches = cc.attempt + 1
                   /\ Len(cc.reqs) = cc.attempt
            /\ (cc.fetched_attempt >= 0 /\ cc.to_idx >= cc.fetched_count) =>
                   /\ cc.pc = "done"
                   /\ cc.error = "out_of_range"

\* a delete of the last track was refused for its revision because the other caller had
\* deleted a track meanwhile; the second pass found the list shorter and failed at once
C31_Witness ==
    \E c \in Callers :
        /\ call[c].pc = "done"
        /\ call[c].op = "delete"
        /\ call[c].error = "out_of_range"
        /\ call[c].attempt = 1
        /\ Len(call[c].reqs) = 1
        /\ call[c].reqs[1].out = "wrong-revision"
        /\ call[c].reqs[1].fetched_count > call[c].fetched_count
        /\ call[c].applied = 0

(***************************************************************************)
(* Two editors at once.                                                    *)
(***************************************************************************)
\* as InitRace, but user 2 was granted the edit capability as well, so both callers
\* may insert and delete
InitRaceEditors ==
    /\ next_playlist_id = 2
    /\ yandex_accounts = {DefaultAccount}
    /\ next_account_id = 2
    /\ \E pos \in {"start", "end"} :
         playlists = [p \in PlaylistIds |->
             [create_playlist_row(1, DefaultAccount.id, "A") EXCEPT !.share_token = p,
                                                                   !.insert_position = pos]]
    /\ playlist_access = [k \in PlaylistIds \X Users |-> IF k[2] = 1 THEN FullRow ELSE EditRow]
    /\ actions = <<>>
    /\ default_client = NoClient
    /\ user_clients = [u \in Users |-> NoClient]
    /\ chk = NoCheck
    /\ obs = NoObs
    /\ \E n \in RaceSizes : remote = RemoteOfSize(n)
    /\ call = [c \in Callers |-> IdleCall]
    /\ ncalls = 0
    /\ actors = Callers
    /\ insertAts = <<>>

\* the track numbers caller c2 asks to delete
OtherIndexes == {1, 2}

\* caller c1 deletes tracks while caller c2 inserts and deletes
NextRaceEditors ==
    \/ \E p \in PlaylistIds, i \in 1..MaxIndex : BeginDeleteTrack("c1", UserOf("c1"), p, i)
    \/ \E p \in PlaylistIds, t \in TrackIds : BeginAddTrack("c2", UserOf("c2"), p, t)
    \/ \E p \in PlaylistIds, i \in OtherIndexes : BeginDeleteTrack("c2", UserOf("c2"), p, i)
    \/ \E c \in Callers : ResolveSession(c)
    \/ \E c \in Callers : FetchForInsert(c)
    \/ \E c \in Callers : SubmitInsert(c)
    \/ \E c \in Callers : FetchForDelete(c)
    \/ \E c \in Callers : SubmitDelete(c)
    \/ \E c \in Callers : PostCheckDelete(c)
    \/ \E c \in Callers : Return(c)

SpecRaceEditors == InitRaceEditors /\ [][NextRaceEditors]_vars

(***************************************************************************)
(* C32: when the check after an accepted delete request finds that the     *)
(* track count went down, but not by the one track asked for (another      *)
(* caller deleted meanwhile), the call returns success in that pass: it is *)
(* done and ok with that request as its last one, and a call goes back to  *)
(* the fetch after such a check only when the count had not gone down.     *)
(***************************************************************************)
C32_OtherDecreaseIsSuccess ==
    \A c \in Callers :
        LET cc == call[c]
            n == Len(cc.reqs)
        IN
        (cc.pc # "idle" /\ cc.op = "delete" /\ n >= 1 /\ cc.reqs[n].out \in {"ok", "noop"}
            /\ cc.post_count >= 0) =>
            /\ (cc.pc = "done" /\ cc.post_count < cc.tracks_count_before
                    /\ cc.post_count # cc.tracks_count_before - 1) =>
                   /\ cc.ok
                   /\ n = cc.attempt + 1
                   /\ cc.reqs[n].attempt = cc.attempt
            /\ (cc.pc = "fetch" /\ cc.attempt = n) =>
                   cc.post_count >= cc.tracks_count_before

\* caller c1's delete was applied, the other caller's delete was applied before c1 looked
\* again, c1 found two tracks fewer instead of one and returned success
C32_Witness ==
    /\ call["c1"].pc = "done"
    /\ call["c1"].op = "delete"
    /\ call["c1"].ok
    /\ Len(call["c1"].reqs) = 1
    /\ call["c1"].reqs[1].out = "ok"
    /\ call["c1"].applied = 1
    /\ call["c1"].post_count = call["c1"].tracks_count_before - 2
    /\ call["c2"].pc # "idle"
    /\ call["c2"].op = "delete"
    /\ call["c2"].applied = 1

(***************************************************************************)
(* The client manager with its calls overlapping.  The manager's methods   *)
(* are coroutines on one event loop: a call runs alone from one await that *)
(* suspends it (a database query, a handshake run in a thread) to the      *)
(* next, and other calls run in between.  call[c] holds the manager call   *)
(* of task c: what it has read, what it waits for, what it returned.       *)
(***************************************************************************)
NewTask(op, u, token) ==
    [pc |-> "start", op |-> op, user |-> u, token |-> token, client |-> NoSession,
     result |-> FALSE, user_handshakes |-> 0, default_handshakes |-> 0, created |-> 0]

\* variant: a client found in the cache when the handshake ends is thrown away
install_client_DropsDuplicate(u, token) ==
    IF user_clients[u] # NoClient THEN [user_clients EXCEPT ![u] = NoClient]
    ELSE [user_clients EXCEPT ![u] = token]

\* self._user_clients[telegram_id] = client
install_client(u, token) == [user_clients EXCEPT ![u] = token]

\* await self._ensure_default_client() up to its first suspension: with the default
\* client initialized the call returns it, otherwise the handshake starts
enter_ensure_default_client(cc) ==
    IF default_client # NoClient
    THEN [cc EXCEPT !.pc = "done", !.client = DefaultClient]
    ELSE [cc EXCEPT !.pc = "default_handshake"]

\* get_client(telegram_id) is called; with telegram_id None it goes for the default
\* client at once, otherwise it awaits the stored token
BeginGetClient(c, u) ==
    /\ call[c].pc = "idle"
    /\ ncalls < MaxTasks
    /\ ncalls' = ncalls + 1
    /\ call' = [call EXCEPT ![c] =
           IF u = DefaultUser THEN enter_ensure_default_client(NewTask("get_client", u, NoToken))
           ELSE [NewTask("get_client", u, NoToken) EXCEPT !.pc = "read_token"]]
    /\ UNCHANGED <<playlists, next_playlist_id, playlist_access, yandex_accounts, next_account_id,
                   actions, default_client, user_clients, remote, actors, insertAts, chk, obs>>

\* the query of db.get_user_yandex_token runs
ReadUserToken(c) ==
    /\ call[c].pc = "read_token"
    /\ call' = [call EXCEPT ![c] = [@ EXCEPT !.pc = "have_token",
                                            !.token = get_user_yandex_token(call[c].user)]]
    /\ UNCHANGED <<playlists, next_playlist_id, playlist_access, yandex_accounts, next_account_id,
                   actions, default_client, user_clients, remote, ncalls, actors, insertAts, chk, obs>>

\* get_client resumes with the token: no token, a cached client, or a handshake to start
ResumeGetClient(c) ==
    /\ call[c].pc = "have_token"
    /\ LET cc == call[c] IN
       call' = [call EXCEPT ![c] =
           IF cc.token = NoToken THEN enter_ensure_default_client(cc)
           ELSE IF user_clients[cc.user] # NoClient
           THEN [cc EXCEPT !.pc = "done",
                           !.client = [acct |-> cc.user, token |-> user_clients[cc.user]]]
           ELSE [cc EXCEPT !.pc = "user_handshake"]]
    /\ UNCHANGED <<playlists, next_playlist_id, playlist_access, yandex_accounts, next_account_id,
                   actions, default_client, user_clients, remote, ncalls, actors, insertAts, chk, obs>>

\* _init_client_with_retry(user_token) ends: the client is cached and returned, or the
\* call falls back to the default client
UserHandshakeEnds(c) ==
    /\ call[c].pc = "user_handshake"
    /\ \E hs \in Handshakes :
         LET cc == [call[c] EXCEPT !.user_handshakes = @ + 1] IN
         IF hs = "ok"
         THEN /\ user_clients' = install_client(cc.user, cc.token)
              /\ call' = [call EXCEPT ![c] =
                     [cc EXCEPT !.pc = "done", !.created = @ + 1,
                                !.client = [acct |-> cc.user, token |-> cc.token]]]
         ELSE /\ call' = [call EXCEPT ![c] = enter_ensure_default_client(cc)]
              /\ UNCHANGED user_clients
    /\ UNCHANGED <<playlists, next_playlist_id, playlist_access, yandex_accounts, next_account_id,
                   actions, default_client, remote, ncalls, actors, insertAts, chk, obs>>

\* _init_default_client's handshake ends: the default client is set and returned, or
\* _default_client_initialized is cleared and RuntimeError leaves get_client
DefaultHandshakeEnds(c) ==
    /\ call[c].pc = "default_handshake"
    /\ \E hs \in Handshakes :
         LET cc == [call[c] EXCEPT !.default_handshakes = @ + 1] IN
         IF hs = "ok"
         THEN /\ default_client' = DefaultToken
              /\ call' = [call EXCEPT ![c] = [cc EXCEPT !.pc = "done", !.created = @ + 1,
                                                        !.client = DefaultClient]]
         ELSE /\ default_client' = NoClient
              /\ call' = [call EXCEPT ![c] = [cc EXCEPT !.pc = "raised"]]
    /\ UNCHANGED <<playlists, next_playlist_id, playlist_access, yandex_accounts, next_account_id,
                   actions, user_clients, remote, ncalls, actors, insertAts, chk, obs>>

\* set_user_token(telegram_id, token) is called and starts the handshake of the new token
BeginSetUserToken(c, u, token) ==
    /\ call[c].pc = "idle"
    /\ ncalls < MaxTasks
    /\ ncalls' = ncalls + 1
    /\ call' = [call EXCEPT ![c] = [NewTask("set_user_token", u, token) EXCEPT !.pc = "test_handshake"]]
    /\ UNCHANGED <<playlists, next_playlist_id, playlist_access, yandex_accounts, next_account_id,
                   actions, default_client, user_clients, remote, actors, insertAts, chk, obs>>

\* the handshake of the new token ends: on failure set_user_token returns False
TestHandshakeEnds(c) ==
    /\ call[c].pc = "test_handshake"
    /\ \E hs \in Handshakes :
         LET cc == [call[c] EXCEPT !.user_handshakes = @ + 1] IN
         call' = [call EXCEPT ![c] =
             IF hs = "ok" THEN [cc EXCEPT !.pc = "write_token", !.created = @ + 1]
             ELSE [cc EXCEPT !.pc = "done", !.result = FALSE]]
    /\ UNCHANGED <<playlists, next_playlist_id, playlist_access, yandex_accounts, next_account_id,
                   actions, default_client, user_clients, remote, ncalls, actors, insertAts, chk, obs>>

\* the transaction of db.set_user_yandex_token commits
WriteUserToken(c) ==
    /\ call[c].pc = "write_token"
    /\ yandex_accounts' = set_user_yandex_token(call[c].user, call[c].token)
    /\ next_account_id' = next_account_id + 1
    /\ call' = [call EXCEPT ![c] = [@ EXCEPT !.pc = "stored"]]
    /\ UNCHANGED <<playlists, next_playlist_id, playlist_access, actions, default_client,
                   user_clients, remote, ncalls, actors, insertAts, chk, obs>>

\* set_user_token resumes: the cached client is replaced by the tested one, True is returned
InstallTestedClient(c) ==
    /\ call[c].pc = "stored"
    /\ user_clients' = [user_clients EXCEPT ![call[c].user] = call[c].token]
    /\ call' = [call EXCEPT ![c] = [@ EXCEPT !.pc = "done", !.result = TRUE,
                                            !.client = [acct |-> call[c].user, token |-> call[c].token]]]
    /\ UNCHANGED <<playlists, next_playlist_id, playlist_access, yandex_accounts, next_account_id,
                   actions, default_client, remote, ncalls, actors, insertAts, chk, obs>>

\* a process that has just started: user 1 may have stored a personal token earlier,
\* no client has been built
InitTasks ==
    /\ playlists = [p \in PlaylistIds |-> NoPlaylist]
    /\ next_playlist_id = 1
    /\ playlist_access = [k \in PlaylistIds \X Users |-> NoRow]
    /\ yandex_accounts \in {{DefaultAccount}, {DefaultAccount, UserAccount}}
    /\ next_account_id = 3
    /\ actions = <<>>
    /\ default_client = NoClient
    /\ user_clients = [u \in Users |-> NoClient]
    /\ remote = EmptyRemote
    /\ call = [c \in Callers |-> IdleCall]
    /\ ncalls = 0
    /\ actors = {}
    /\ insertAts = <<>>
    /\ chk = NoCheck
    /\ obs = NoObs

\* the user whose manager calls overlap
RacingUser == 1

\* sessions are asked for by overlapping calls; no token is set meanwhile
NextFirstAccess ==
    \/ \E c \in Callers, u \in {RacingUser, DefaultUser} : BeginGetClient(c, u)
    \/ \E c \in Callers : ReadUserToken(c)
    \/ \E c \in Callers : ResumeGetClient(c)
    \/ \E c \in Callers : UserHandshakeEnds(c)
    \/ \E c \in Callers : DefaultHandshakeEnds(c)
    \/ \E c \in Callers : Return(c)

SpecFirstAccess == InitTasks /\ [][NextFirstAccess]_vars

\* sessions are asked for and tokens are set by overlapping calls
NextSessions ==
    \/ \E c \in Callers : BeginGetClient(c, RacingUser)
    \/ \E c \in Callers, token \in Tokens : BeginSetUserToken(c, RacingUser, token)
    \/ \E c \in Callers : ReadUserToken(c)
    \/ \E c \in Callers : ResumeGetClient(c)
    \/ \E c \in Callers : UserHandshakeEnds(c)
    \/ \E c \in Callers : DefaultHandshakeEnds(c)
    \/ \E c \in Callers : TestHandshakeEnds(c)
    \/ \E c \in Callers : WriteUserToken(c)
    \/ \E c \in Callers : InstallTestedClient(c)
    \/ \E c \in Callers : Return(c)

SpecSessions == InitTasks /\ [][NextSessions]_vars

(***************************************************************************)
(* C33: session creation is not serialized.  When two overlapping          *)
(* get_client calls for the same user, or for the default account, each    *)
(* ran a handshake of their own and each built a client, both calls        *)
(* returned a client of the credential stored for that identity, and with  *)
(* both calls finished the cache holds one client for the identity, built  *)
(* from that credential.                                                   *)
(***************************************************************************)
C33_DuplicateHandshakesAreSafe ==
    \A c \in Callers : \A d \in Callers \ {c} :
        LET cc == call[c]
            dd == call[d]
        IN
        (/\ cc.pc = "done" /\ dd.pc = "done"
         /\ cc.op = "get_client" /\ dd.op = "get_client"
         /\ cc.user = dd.user) =>
            /\ (cc.user # DefaultUser /\ cc.user_handshakes = 1 /\ dd.user_handshakes = 1
                    /\ cc.created = 1 /\ dd.created = 1
                    /\ cc.default_handshakes = 0 /\ dd.default_handshakes = 0) =>
                   /\ \E a \in yandex_accounts :
                          /\ a.telegram_id = cc.user
                          /\ cc.client = [acct |-> cc.user, token |-> a.token]
                          /\ dd.client = cc.client
                          /\ user_clients[cc.user] = a.token
            /\ (cc.user = DefaultUser /\ cc.default_handshakes = 1 /\ dd.default_handshakes = 1
                    /\ cc.created = 1 /\ dd.created = 1) =>
                   /\ cc.client = DefaultClient
                   /\ dd.client = DefaultClient
                   /\ default_client = DefaultToken

\* two overlapping first calls for user 1 each ran the handshake of the stored token and
\* each returned a client; the cache holds a client for user 1
C33_Witness ==
    /\ call["c1"].pc = "done" /\ call["c2"].pc = "done"
    /\ call["c1"].op = "get_client" /\ call["c2"].op = "get_client"
    /\ call["c1"].user = RacingUser /\ call["c2"].user = RacingUser
    /\ call["c1"].user_handshakes = 1 /\ call["c2"].user_handshakes = 1
    /\ call["c1"].default_handshakes = 0 /\ call["c2"].default_handshakes = 0
    /\ call["c1"].created = 1 /\ call["c2"].created = 1
    /\ user_clients[RacingUser] # NoClient

(***************************************************************************)
(* Share links and the calls of those who opened them.                     *)
(***************************************************************************)
\* the tables of InitAccess with one handler task running service calls
InitShare ==
    /\ playlists = [p \in PlaylistIds |-> NoPlaylist]
    /\ next_playlist_id = 1
    /\ playlist_access = [k \in PlaylistIds \X Users |-> NoRow]
    /\ yandex_accounts = {[id |-> 1, telegram_id |-> DefaultUser, token |-> DefaultToken]}
    /\ next_account_id = 2
    /\ actions = <<>>
    /\ default_client = NoClient
    /\ user_clients = [u \in Users |-> NoClient]
    /\ remote = EmptyRemote
    /\ call = [c \in Callers |-> IdleCall]
    /\ ncalls = 0
    /\ actors = {"c1"}
    /\ insertAts = <<>>
    /\ chk = NoCheck
    /\ obs = NoObs

\* playlists are created, share links are opened, and the service is called
NextShare ==
    \/ \E u \in Users : CreatePlaylist(u, "A")
    \/ \E u \in Users, t \in PlaylistIds : RedeemShareToken(u, t)
    \/ Next

SpecShare == InitShare /\ [][NextShare]_vars

(***************************************************************************)
(* C34: opening a playlist's share link gives a user who had no access row *)
(* the row with can_add and without can_edit and can_delete; and a service *)
(* call begun by a user who holds that row on a playlist created by        *)
(* someone else passes the permission check when it is an add-track call   *)
(* and is refused at the check when it is a delete-track, rename or        *)
(* set-cover call.                                                         *)
(***************************************************************************)
C34_ShareLinkGivesAddOnly ==
    /\ [][\A p \in PlaylistIds, u \in Users :
            (/\ playlists[p] # NoPlaylist
             /\ playlists'[p] = playlists[p]
             /\ playlist_access[<<p, u>>] = NoRow
             /\ playlist_access'[<<p, u>>] # NoRow) =>
                playlist_access'[<<p, u>>] =
                    [can_add |-> TRUE, can_edit |-> FALSE, can_delete |-> FALSE]]_vars
    /\ [][\A c \in Callers :
            (/\ call[c].pc = "idle"
             /\ call'[c].pc # "idle"
             /\ playlists[call'[c].playlist_id] # NoPlaylist
             /\ playlists[call'[c].playlist_id].creator_telegram_id # call'[c].user
             /\ playlist_access[<<call'[c].playlist_id, call'[c].user>>] =
                    [can_add |-> TRUE, can_edit |-> FALSE, can_delete |-> FALSE]) =>
                /\ call'[c].op = "insert" => call'[c].pc = "session"
                /\ call'[c].op = "delete" =>
                       call'[c].pc = "done" /\ ~call'[c].ok /\ call'[c].error = "denied"
                /\ call'[c].op \in {"rename", "cover"} =>
                       call'[c].pc = "done" /\ ~call'[c].ok /\ call'[c].error = "not_creator"]_vars

\* user 2 opened the share link of the playlist user 1 created, holds the add-only row,
\* and the rename asked for afterwards was refused
C34_Witness ==
    /\ playlists[1] # NoPlaylist
    /\ playlists[1].creator_telegram_id = 1
    /\ playlist_access[<<1, 2>>] = AddOnlyRow
    /\ \E i \in 1..Len(actions) :
           actions[i].action_type = "playlist_shared_access" /\ actions[i].telegram_id = 2
    /\ call["c1"].pc = "done"
    /\ call["c1"].user = 2
    /\ call["c1"].op = "rename"
    /\ call["c1"].error = "not_creator"

(***************************************************************************)
(* C35: one delete call has at most one of its diffs applied to the remote *)
(* playlist, whatever the other callers insert or delete meanwhile, and it *)
(* sends a further diff only when none of its earlier diffs was applied.   *)
(***************************************************************************)
C35_AtMostOneDiffApplied ==
    \A c \in Callers :
        LET cc == call[c] IN
        (cc.pc # "idle" /\ cc.op = "delete") =>
            /\ cc.applied <= 1
            /\ Cardinality({k \in 1..Len(cc.reqs) : cc.reqs[k].out = "ok"}) <= 1
            /\ \A k \in 1..Len(cc.reqs) : \A j \in 1..(k - 1) : cc.reqs[j].out # "ok"

(***************************************************************************)
(* C36: a delete call that returns failure has had none of its diffs       *)
(* applied to the remote playlist, also when the fetch made to check the   *)
(* result fails.                                                           *)
(***************************************************************************)
C36_FailureMeansNotApplied ==
    \A c \in Callers :
        LET cc == call[c] IN
        (cc.pc = "done" /\ cc.op = "delete" /\ ~cc.ok) =>
            /\ cc.applied = 0
            /\ \A k \in 1..Len(cc.reqs) : cc.reqs[k].out # "ok"

(***************************************************************************)
(* C37: opening a share link never takes a capability away: in every step  *)
(* in which a user's opening of a playlist's share link is logged, each    *)
(* capability of the access row that user held on the playlist before the  *)
(* step is still in the row after it.                                      *)
(***************************************************************************)
C37_RedeemKeepsCapabilities ==
    [][\A p \in PlaylistIds, u \in Users :
          (/\ Len(actions') = Len(actions) + 1
           /\ actions'[Len(actions')] =
                  [telegram_id |-> u, action_type |-> "playlist_shared_access", playlist_id |-> p]
           /\ playlist_access[<<p, u>>] # NoRow) =>
              /\ playlist_access'[<<p, u>>] # NoRow
              /\ playlist_access[<<p, u>>].can_add => playlist_access'[<<p, u>>].can_add
              /\ playlist_access[<<p, u>>].can_edit => playlist_access'[<<p, u>>].can_edit
              /\ playlist_access[<<p, u>>].can_delete => playlist_access'[<<p, u>>].can_delete]_vars

(***************************************************************************)
(* C38: whenever no get_client and no set_user_token call is running, the  *)
(* client cached for a user was built from the token stored for that user  *)
(* at that moment, however the calls for that user overlapped before.      *)
(***************************************************************************)
C38_CacheMatchesStoredToken ==
    (\A c \in Callers : call[c].pc \in {"idle", "done", "raised"}) =>
        \A u \in Users :
            user_clients[u] # NoClient =>
                \E a \in yandex_accounts : a.telegram_id = u /\ a.token = user_clients[u]

(***************************************************************************)
(* C39: a failed handshake of a user's stored token is never cached: no    *)
(* user's key of the cache ever holds the default client, a get_client     *)
(* that fell back to the default client leaves the cache as it found it,   *)
(* with no client under the user's key, and the get_client that follows a  *)
(* fallback and finds the key still empty runs the handshake of the stored *)
(* token again.                                                            *)
(***************************************************************************)
C39_FallbackIsNotCached ==
    /\ \A u \in Users : user_clients[u] # DefaultToken
    /\ obs.kind = "get" =>
           LET u == obs.telegram_id IN
           /\ (u # DefaultUser /\ obs.stored # NoToken /\ obs.hs # <<>>
                 /\ obs.hs[1].token = obs.stored /\ obs.hs[1].result # "ok") =>
                  /\ obs.ucl_after = obs.ucl_before
                  /\ obs.ucl_after[u] = NoClient
                  /\ ~obs.raised => obs.client = DefaultClient
           /\ (obs.after_fallback /\ obs.stored # NoToken /\ obs.ucl_before[u] = NoClient) =>
                  /\ obs.hs # <<>>
                  /\ obs.hs[1].token = obs.stored

\* a get_client fell back to the default client, and the same user's next get_client ran
\* the handshake of the stored token again, this time with success
C39_Witness ==
    /\ obs.kind = "get"
    /\ obs.after_fallback
    /\ obs.stored # NoToken
    /\ obs.ucl_before[obs.telegram_id] = NoClient
    /\ obs.hs = Handshake(obs.stored, "ok")
    /\ obs.client = [acct |-> obs.telegram_id, token |-> obs.stored]
    /\ user_clients[obs.telegram_id] = obs.stored

====
